---- MODULE Spec2Model ----
(***************************************************************************)
(* Variable substitution engine of the tool-variable SDK: the session      *)
(* store (variable-store.ts), the reference parser and resolvers           *)
(* (variable-resolver.ts) and the incremental text stream transform        *)
(* (variable-stream.ts).                                                   *)
(*                                                                         *)
(* A JavaScript string is a sequence of one-character strings.  A          *)
(* JavaScript value is a record tagged by t; the payload v is present for  *)
(* every tag but "undefined" and "null".                                   *)
(***************************************************************************)
EXTENDS Integers, Sequences, FiniteSets, TLC

VARIABLES
    store,      \* the Map behind STORE_KEY, as its entries in insertion order
    clock,      \* the value Date.now() returns at this moment
    written,    \* history: name -> the value of the last setVariable since the last clear
    order,      \* history: the names written since the last clear, most recently written last
    op,         \* the last API call made on the session ("none" before the first)
    arg,        \* its argument
    ret,        \* its return value
    buffer,     \* createTextStreamTransform: the closure variable `buffer`
    received,   \* history: concatenation of the chunks written to the transform
    consumed,   \* history: the raw text handed to resolveVariablesInText so far
    out,        \* concatenation of the fragments enqueued on the readable side
    lastEmit,   \* the fragments enqueued by the most recent transform/flush call
    closed,     \* the writable side was closed and flush has run
    cutKind,    \* history: how the chunk boundaries so far fell relative to references
    chunksIn,   \* history: the chunks written to createVariableStreamTransform
    chunksOut,  \* the chunks it enqueued on the readable side
    invocation, \* the wrapped tool call that is running, or the last one that ended
    lastIndex,  \* variable-resolver.ts: VARIABLE_PATTERN.lastIndex, kept between calls
    contexts,   \* the other RuntimeContext objects: whether STORE_KEY is set, and the Map
    peer,       \* a second createTextStreamTransform instance: its context, buffer and output
    agent       \* the transformedStream of the wrapped agent's stream(): the loop's buffer and output

vars == <<store, clock, written, order, op, arg, ret,
          buffer, received, consumed, out, lastEmit, closed, cutKind,
          chunksIn, chunksOut, invocation, lastIndex, contexts, peer, agent>>

storeVars == <<store, clock, written, order>>
callVars == <<op, arg, ret>>
streamVars == <<buffer, received, consumed, out, lastEmit, closed, cutKind>>
chunkVars == <<chunksIn, chunksOut>>
toolVars == <<invocation>>
patternVars == <<lastIndex>>
instanceVars == <<contexts, peer>>
agentVars == <<agent>>

----------------------------------------------------------------------------
(* Bounds of the model *)

\* most chunks written to one createVariableStreamTransform
MaxChunks == 3

\* longest string handed to resolveString / resolveVariables
MaxLen == 4
\* most characters written to one stream transform
MaxText == 5
\* largest reading of Date.now()
MaxClock == 2

----------------------------------------------------------------------------
(* Characters and strings *)

\* [a-zA-Z_]
IdentStartChars ==
    {"a", "b", "c", "d", "e", "f", "g", "h", "i", "j", "k", "l", "m",
     "n", "o", "p", "q", "r", "s", "t", "u", "v", "w", "x", "y", "z",
     "A", "B", "C", "D", "E", "F", "G", "H", "I", "J", "K", "L", "M",
     "N", "O", "P", "Q", "R", "S", "T", "U", "V", "W", "X", "Y", "Z", "_"}

\* [0-9]
DigitChars == {"0", "1", "2", "3", "4", "5", "6", "7", "8", "9"}

\* [a-zA-Z0-9_]
IdentChars == IdentStartChars \cup DigitChars

IsIdentStart(c) == c \in IdentStartChars

IsIdentChar(c) == c \in IdentChars

\* All strings over alphabet A of length at most n
StringsUpTo(A, n) == UNION {[1..k -> A] : k \in 0..n}

\* String.prototype.slice(from) with a 0-based index, 0 <= from
SliceFrom(s, from) == SubSeq(s, from + 1, Len(s))

\* String.prototype.slice(0, to) with a 0-based end index
SliceTo(s, to) == SubSeq(s, 1, to)

RECURSIVE Concat(_)
\* Array.prototype.join("") of a sequence of strings
Concat(ss) == IF ss = <<>> THEN <<>> ELSE Head(ss) \o Concat(Tail(ss))

\* s is a prefix of t
IsPrefix(s, t) == Len(s) <= Len(t) /\ SubSeq(t, 1, Len(s)) = s

\* String.prototype.lastIndexOf(c): 0-based index of the last c, or -1
LastIndexOf(s, c) ==
    LET I == {i \in 1..Len(s) : s[i] = c}
    IN  IF I = {} THEN -1 ELSE (CHOOSE i \in I : \A j \in I : j <= i) - 1

RECURSIVE SplitFrom(_, _, _, _)
SplitFrom(s, sep, i, cur) ==
    IF i > Len(s) THEN <<cur>>
    ELSE IF s[i] = sep THEN <<cur>> \o SplitFrom(s, sep, i + 1, <<>>)
    ELSE SplitFrom(s, sep, i + 1, Append(cur, s[i]))

\* String.prototype.split(sep) for a one-character separator
Split(s, sep) == SplitFrom(s, sep, 1, <<>>)

----------------------------------------------------------------------------
(* The reference grammar *)

RECURSIVE IdentEnd(_, _)
\* [a-zA-Z0-9_]* from 1-based index i, greedy: the index after the run
IdentEnd(s, i) ==
    IF i <= Len(s) /\ IsIdentChar(s[i]) THEN IdentEnd(s, i + 1) ELSE i

RECURSIVE PathEnd(_, _)
\* (\.[a-zA-Z_][a-zA-Z0-9_]*)* from index i, greedy: the index after the groups
PathEnd(s, i) ==
    IF i + 1 <= Len(s) /\ s[i] = "." /\ IsIdentStart(s[i + 1])
    THEN PathEnd(s, IdentEnd(s, i + 2))
    ELSE i

\* VARIABLE_PATTERN tried at 1-based index i: the index after the match, 0 when
\* there is no match at i
MatchEnd(s, i) ==
    IF i + 1 <= Len(s) /\ s[i] = "$" /\ IsIdentStart(s[i + 1])
    THEN PathEnd(s, IdentEnd(s, i + 2))
    ELSE 0

\* EXACT_VARIABLE_PATTERN.test(s): the match at the start runs to the end
ExactVariablePatternTest(s) == MatchEnd(s, 1) = Len(s) + 1

RECURSIVE MatchesFrom(_, _)
\* The successive matches of the global pattern from index i on, leftmost
\* first, each <<start, end>> (end exclusive), as replace and matchAll visit them
MatchesFrom(s, i) ==
    IF i > Len(s) THEN <<>>
    ELSE IF MatchEnd(s, i) = 0 THEN MatchesFrom(s, i + 1)
    ELSE <<(<<i, MatchEnd(s, i)>>)>> \o MatchesFrom(s, MatchEnd(s, i))

Matches(s) == MatchesFrom(s, 1)

\* A parseVariableRef that does not remove the leading `$`
parseVariableRef_KeepsDollar(ref) ==
    LET parts == Split(ref, ".")
    IN  [name |-> parts[1], path |-> Tail(parts)]

\* parseVariableRef(ref)
parseVariableRef(ref) ==
    LET withoutDollar == SliceFrom(ref, 1)
        parts == Split(withoutDollar, ".")
    IN  [name |-> parts[1], path |-> Tail(parts)]

----------------------------------------------------------------------------
(* JavaScript values *)

Undefined == [t |-> "undefined"]

Null == [t |-> "null"]

Num(n) == [t |-> "number", v |-> n]

Bool(b) == [t |-> "boolean", v |-> b]

\* a string value; s is its sequence of characters
Str(s) == [t |-> "string", v |-> s]

\* an array; items is the sequence of its elements
Arr(items) == [t |-> "array", v |-> items]

\* a plain object; entries are its own properties [k, v] in insertion order
Obj(entries) == [t |-> "object", v |-> entries]

\* a built-in function inherited from a prototype, named by its property
Fn(name) == [t |-> "function", v |-> name]

\* typeof x === 'object' && x !== null (arrays are objects)
IsObjectType(x) == x.t \in {"object", "array"}

\* Object.keys / Object.entries order of a plain object
Keys(o) == [i \in 1..Len(o.v) |-> o.v[i].k]

HasOwn(o, key) == \E i \in 1..Len(o.v) : o.v[i].k = key

OwnValue(o, key) == o.v[CHOOSE i \in 1..Len(o.v) : o.v[i].k = key].v

\* Some of the identifier-named properties every object inherits from
\* Object.prototype, and an array from Array.prototype
ObjectPrototypeKeys ==
    {<<"c", "o", "n", "s", "t", "r", "u", "c", "t", "o", "r">>,
     <<"t", "o", "S", "t", "r", "i", "n", "g">>,
     <<"v", "a", "l", "u", "e", "O", "f">>}

ArrayPrototypeKeys == ObjectPrototypeKeys \cup {<<"a", "t">>, <<"m", "a", "p">>}

LengthKey == <<"l", "e", "n", "g", "t", "h">>

\* x[key] for x an object or array and key an identifier: an own property,
\* else an inherited one, else undefined.  An array's own index keys are
\* digit strings, which no identifier is.
GetProperty(x, key) ==
    IF x.t = "object"
    THEN IF HasOwn(x, key) THEN OwnValue(x, key)
         ELSE IF key \in ObjectPrototypeKeys THEN Fn(key)
         ELSE Undefined
    ELSE IF key = LengthKey THEN Num(Len(x.v))
    ELSE IF key \in ArrayPrototypeKeys THEN Fn(key)
    ELSE Undefined

DigitText(d) == <<"0", "1", "2", "3", "4", "5", "6", "7", "8", "9">>[d + 1]

RECURSIVE NumberText(_)
\* String(n) for a natural number n
NumberText(n) ==
    IF n < 10 THEN <<DigitText(n)>>
    ELSE NumberText(n \div 10) \o <<DigitText(n % 10)>>

NullText == <<"n", "u", "l", "l">>

UndefinedText == <<"u", "n", "d", "e", "f", "i", "n", "e", "d">>

BooleanText(b) ==
    IF b THEN <<"t", "r", "u", "e">> ELSE <<"f", "a", "l", "s", "e">>

RECURSIVE QuoteFrom(_, _)
QuoteFrom(s, i) ==
    IF i > Len(s) THEN <<>>
    ELSE (IF s[i] \in {"\"", "\\"} THEN <<"\\", s[i]>> ELSE <<s[i]>>)
         \o QuoteFrom(s, i + 1)

\* JSON.stringify of a string: quoted, with quote and backslash escaped
QuoteText(s) == <<"\"">> \o QuoteFrom(s, 1) \o <<"\"">>

\* JSON.stringify leaves out an object property with such a value, and
\* writes null for such an array element
IsJsonOmitted(x) == x.t \in {"undefined", "function"}

RECURSIVE JsonStringify(_)
RECURSIVE JsonItems(_, _)
RECURSIVE JsonEntries(_, _, _)
\* JSON.stringify(x) for x not itself omitted
JsonStringify(x) ==
    CASE x.t = "null" -> NullText
      [] x.t = "number" -> NumberText(x.v)
      [] x.t = "boolean" -> BooleanText(x.v)
      [] x.t = "string" -> QuoteText(x.v)
      [] x.t = "array" -> <<"[">> \o JsonItems(x.v, 1) \o <<"]">>
      [] x.t = "object" -> <<"{">> \o JsonEntries(x.v, 1, TRUE) \o <<"}">>

JsonItems(items, i) ==
    IF i > Len(items) THEN <<>>
    ELSE (IF i > 1 THEN <<",">> ELSE <<>>)
         \o (IF IsJsonOmitted(items[i]) THEN NullText
             ELSE JsonStringify(items[i]))
         \o JsonItems(items, i + 1)

JsonEntries(entries, i, first) ==
    IF i > Len(entries) THEN <<>>
    ELSE IF IsJsonOmitted(entries[i].v) THEN JsonEntries(entries, i + 1, first)
    ELSE (IF first THEN <<>> ELSE <<",">>)
         \o QuoteText(entries[i].k) \o <<":">> \o JsonStringify(entries[i].v)
         \o JsonEntries(entries, i + 1, FALSE)

\* String(f) of a built-in function
FunctionText(name) ==
    <<"f", "u", "n", "c", "t", "i", "o", "n", " ">> \o name
    \o <<"(", ")", " ", "{", " ", "[", "n", "a", "t", "i", "v", "e", " ",
         "c", "o", "d", "e", "]", " ", "}">>

\* The conversion both resolvers apply to an interpolated value:
\* 'null', 'undefined', JSON.stringify for an object, String otherwise
ToInterpolatedText(resolved) ==
    CASE resolved.t = "null" -> NullText
      [] resolved.t = "undefined" -> UndefinedText
      [] IsObjectType(resolved) -> JsonStringify(resolved)
      [] resolved.t = "string" -> resolved.v
      [] resolved.t = "number" -> NumberText(resolved.v)
      [] resolved.t = "boolean" -> BooleanText(resolved.v)
      [] resolved.t = "function" -> FunctionText(resolved.v)

----------------------------------------------------------------------------
(* variable-store.ts *)

\* 1-based position of name among the Map's entries, 0 when absent
StoreIndex(st, name) ==
    IF \E i \in 1..Len(st) : st[i].name = name
    THEN CHOOSE i \in 1..Len(st) : st[i].name = name
    ELSE 0

\* A setVariable that merges into an existing entry and keeps its toolId
setVariable_KeepToolId(st, name, value, toolId, now) ==
    LET i == StoreIndex(st, name)
        e == [name |-> name, value |-> value,
              toolId |-> IF i = 0 THEN toolId ELSE st[i].toolId, timestamp |-> now]
    IN  IF i = 0 THEN Append(st, e) ELSE [st EXCEPT ![i] = e]

\* store.set(name, {value, toolId, timestamp: Date.now()}): Map.set keeps the
\* position of an existing key and appends a new one
setVariable(st, name, value, toolId, now) ==
    LET e == [name |-> name, value |-> value, toolId |-> toolId, timestamp |-> now]
        i == StoreIndex(st, name)
    IN  IF i = 0 THEN Append(st, e) ELSE [st EXCEPT ![i] = e]

\* store.get(name)?.value
getVariable(st, name) ==
    IF StoreIndex(st, name) = 0 THEN Undefined
    ELSE st[StoreIndex(st, name)].value

\* store.get(name)
getVariableWithMeta(st, name) ==
    IF StoreIndex(st, name) = 0 THEN Undefined
    ELSE Obj(<<[k |-> <<"v", "a", "l", "u", "e">>, v |-> st[StoreIndex(st, name)].value],
               [k |-> <<"t", "o", "o", "l", "I", "d">>, v |-> Str(st[StoreIndex(st, name)].toolId)],
               [k |-> <<"t", "i", "m", "e", "s", "t", "a", "m", "p">>,
                v |-> Num(st[StoreIndex(st, name)].timestamp)]>>)

\* store.has(name)
hasVariable(st, name) == StoreIndex(st, name) # 0

\* A clear that leaves the oldest entry in place
clearVariables_KeepFirst(st) == IF st = <<>> THEN <<>> ELSE <<Head(st)>>

\* store.clear()
clearVariables(st) == <<>>

----------------------------------------------------------------------------
(* variable-store.ts: previews and listing *)

PreviewMaxLength == 100

PreviewItemMaxLength == 30

PreviewValueMaxLength == 20

PreviewKeyCount == 3

PreviewEntryCount == 2

Ellipsis == <<".", ".", ".">>

CommaSpace == <<",", " ">>

RECURSIVE JoinWith(_, _)
\* Array.prototype.join(sep)
JoinWith(ss, sep) ==
    IF ss = <<>> THEN <<>>
    ELSE IF Len(ss) = 1 THEN Head(ss)
    ELSE Head(ss) \o sep \o JoinWith(Tail(ss), sep)

\* Array.prototype.slice(0, n)
Take(xs, n) == SubSeq(xs, 1, IF n < Len(xs) THEN n ELSE Len(xs))

RECURSIVE generatePreview(_, _)
\* generatePreview(value, maxLength)
generatePreview(value, maxLength) ==
    CASE value.t = "null" -> NullText
      [] value.t = "undefined" -> UndefinedText
      [] value.t = "string" ->
            IF Len(value.v) > maxLength
            THEN SliceTo(value.v, maxLength) \o Ellipsis
            ELSE value.v
      [] value.t = "number" -> NumberText(value.v)
      [] value.t = "boolean" -> BooleanText(value.v)
      [] value.t = "array" ->
            LET preview == <<"A", "r", "r", "a", "y", "(">>
                           \o NumberText(Len(value.v)) \o <<")">>
            IN  IF Len(value.v) > 0
                THEN preview \o <<" ", "[">>
                     \o generatePreview(value.v[1], PreviewItemMaxLength)
                     \o <<",", " ", ".", ".", ".", "]">>
                ELSE preview
      [] value.t = "object" ->
            LET keys == Keys(value)
                keyPreview == JoinWith(Take(keys, PreviewKeyCount), CommaSpace)
                suffix == IF Len(keys) > PreviewKeyCount
                          THEN <<",", " ", ".", ".", ".">> ELSE <<>>
                entries == Take(value.v, PreviewEntryCount)
                valuePreview ==
                    JoinWith([i \in 1..Len(entries) |->
                                 entries[i].k \o <<":", " ">>
                                 \o generatePreview(entries[i].v, PreviewValueMaxLength)],
                             CommaSpace)
            IN  IF Len(valuePreview) < maxLength
                THEN <<"{">> \o valuePreview \o suffix \o <<"}">>
                ELSE <<"{">> \o keyPreview \o suffix \o <<"}">>
      [] OTHER -> Take(ToInterpolatedText(value), maxLength)

\* The VariableInfo pushed for one Map entry
VariableInfo(e) ==
    [name |-> e.name, toolId |-> e.toolId, timestamp |-> e.timestamp,
     preview |-> generatePreview(e.value, PreviewMaxLength)]

RECURSIVE InsertSorted(_, _)
\* An insertion that puts x before the elements it compares equal to: a sort
\* that is not stable
InsertSorted_TiesFirst(x, xs) ==
    IF xs = <<>> THEN <<x>>
    ELSE IF Head(xs).timestamp - x.timestamp <= 0
    THEN <<x>> \o xs
    ELSE <<Head(xs)>> \o InsertSorted(x, Tail(xs))

\* x placed into xs, which is sorted by the comparator b.timestamp - a.timestamp,
\* after every element that does not compare greater than it
InsertSorted(x, xs) ==
    IF xs = <<>> THEN <<x>>
    ELSE IF Head(xs).timestamp - x.timestamp < 0
    THEN <<x>> \o xs
    ELSE <<Head(xs)>> \o InsertSorted(x, Tail(xs))

RECURSIVE SortByTimestampDesc(_)
\* result.sort((a, b) => b.timestamp - a.timestamp): Array.prototype.sort is
\* stable, so entries with equal timestamps keep their order
SortByTimestampDesc(xs) ==
    IF xs = <<>> THEN <<>>
    ELSE InsertSorted(xs[Len(xs)], SortByTimestampDesc(SubSeq(xs, 1, Len(xs) - 1)))

\* listVariables(ctx)
listVariables(st) ==
    SortByTimestampDesc([i \in 1..Len(st) |-> VariableInfo(st[i])])

----------------------------------------------------------------------------
(* variable-resolver.ts *)

RECURSIVE getNestedValue(_, _)
\* getNestedValue(obj, path)
getNestedValue(obj, path) ==
    IF path = <<>> THEN obj
    ELSE IF obj.t \in {"null", "undefined"} THEN Undefined
    ELSE IF IsObjectType(obj)
    THEN getNestedValue(GetProperty(obj, Head(path)), Tail(path))
    ELSE Undefined

\* A replacer that drops a reference it cannot resolve
ResolveStringReplacer_DropMiss(match, st) ==
    LET parsed == parseVariableRef(match)
        value == getVariable(st, parsed.name)
        resolved == IF Len(parsed.path) > 0
                    THEN getNestedValue(value, parsed.path)
                    ELSE value
    IN  IF value.t = "undefined" THEN <<>>
        ELSE ToInterpolatedText(resolved)

\* The callback resolveString passes to str.replace
ResolveStringReplacer(match, st) ==
    LET parsed == parseVariableRef(match)
        value == getVariable(st, parsed.name)
        resolved == IF Len(parsed.path) > 0
                    THEN getNestedValue(value, parsed.path)
                    ELSE value
    IN  IF value.t = "undefined" THEN match
        ELSE ToInterpolatedText(resolved)

RECURSIVE ResolveStringReplaceFrom(_, _, _)
\* str.replace(VARIABLE_PATTERN, callback) from 1-based index i on
ResolveStringReplaceFrom(str, i, st) ==
    IF i > Len(str) THEN <<>>
    ELSE IF MatchEnd(str, i) = 0
    THEN <<str[i]>> \o ResolveStringReplaceFrom(str, i + 1, st)
    ELSE ResolveStringReplacer(SubSeq(str, i, MatchEnd(str, i) - 1), st)
         \o ResolveStringReplaceFrom(str, MatchEnd(str, i), st)

\* A resolveString without the exact-match branch: always a string
resolveString_AlwaysText(str, st) == Str(ResolveStringReplaceFrom(str, 1, st))

\* resolveString(str, ctx); str is a string, the result a value
resolveString(str, st) ==
    IF ExactVariablePatternTest(str)
    THEN LET parsed == parseVariableRef(str)
             value == getVariable(st, parsed.name)
         IN  IF value.t = "undefined" THEN Str(str)
             ELSE IF Len(parsed.path) > 0
             THEN getNestedValue(value, parsed.path)
             ELSE value
    ELSE Str(ResolveStringReplaceFrom(str, 1, st))

\* The key whose assignment, result[key] = v, runs the setter inherited from
\* Object.prototype and creates no own property
ProtoKey == <<"_", "_", "p", "r", "o", "t", "o", "_", "_">>

RECURSIVE resolveVariables(_, _)
\* resolveVariables(value, ctx).  The object branch fills a fresh {} by
\* assignment, one entry of Object.entries(obj) after the other; the values
\* of this model carry their own properties only, so what the __proto__
\* setter does to the prototype of the result is not recorded.
resolveVariables(value, st) ==
    IF value.t = "string" THEN resolveString(value.v, st)
    ELSE IF value.t = "array"
    THEN Arr([i \in 1..Len(value.v) |-> resolveVariables(value.v[i], st)])
    ELSE IF value.t = "object"
    THEN Obj(SelectSeq([i \in 1..Len(value.v) |->
                          [k |-> value.v[i].k, v |-> resolveVariables(value.v[i].v, st)]],
                       LAMBDA e : e.k # ProtoKey))
    ELSE value

RECURSIVE ReachesReplace(_)
\* resolveVariables(value, ctx) comes to str.replace(VARIABLE_PATTERN, ...):
\* some string of value is not exactly one reference
ReachesReplace(value) ==
    CASE value.t = "string" -> ~ExactVariablePatternTest(value.v)
      [] value.t = "array" -> \E i \in 1..Len(value.v) : ReachesReplace(value.v[i])
      [] value.t = "object" -> \E i \in 1..Len(value.v) : ReachesReplace(value.v[i].v)
      [] OTHER -> FALSE

\* VARIABLE_PATTERN.lastIndex after resolveVariables(value, ctx): replace
\* with a global pattern starts at 0 and leaves lastIndex 0
LastIndexAfterResolve(value, li) == IF ReachesReplace(value) THEN 0 ELSE li

\* VARIABLE_PATTERN.test(s) with lastIndex li: the search starts at the
\* 0-based index li; a match leaves lastIndex at its end, a failure at 0
PatternTest(s, li) ==
    LET starts == {i \in (li + 1)..Len(s) : MatchEnd(s, i) # 0}
        first  == CHOOSE i \in starts : \A j \in starts : i <= j
    IN  IF starts = {} THEN [result |-> FALSE, lastIndex |-> 0]
        ELSE [result |-> TRUE, lastIndex |-> MatchEnd(s, first) - 1]

RECURSIVE containsVariableRef(_, _)
RECURSIVE SomeContains(_, _, _)
\* containsVariableRef(value) with VARIABLE_PATTERN.lastIndex = li: the
\* result and the lastIndex it leaves
containsVariableRef(value, li) ==
    CASE value.t = "string" -> PatternTest(value.v, li)
      [] value.t = "array" -> SomeContains(value.v, 1, li)
      [] value.t = "object" ->
            SomeContains([i \in 1..Len(value.v) |-> value.v[i].v], 1, li)
      [] OTHER -> [result |-> FALSE, lastIndex |-> li]

\* items.some(containsVariableRef) from the i-th item on: it stops at the
\* first item that gives true
SomeContains(items, i, li) ==
    IF i > Len(items) THEN [result |-> FALSE, lastIndex |-> li]
    ELSE LET r == containsVariableRef(items[i], li)
         IN  IF r.result THEN r ELSE SomeContains(items, i + 1, r.lastIndex)

RECURSIVE Distinct(_)
\* the first occurrence of each element of xs, in order
Distinct(xs) ==
    IF xs = <<>> THEN <<>>
    ELSE LET front == Distinct(SubSeq(xs, 1, Len(xs) - 1))
         IN  IF \E i \in 1..Len(front) : front[i] = xs[Len(xs)] THEN front
             ELSE Append(front, xs[Len(xs)])

\* the names of the matches v.matchAll(VARIABLE_PATTERN) yields: matchAll
\* works on a copy of the pattern that starts at the lastIndex of the
\* original
MatchAllNames(s, li) ==
    LET ms == MatchesFrom(s, li + 1)
    IN  [k \in 1..Len(ms) |-> parseVariableRef(SubSeq(s, ms[k][1], ms[k][2] - 1)).name]

RECURSIVE ExtractedNames(_, _)
RECURSIVE ExtractedFromItems(_, _, _)
\* the names extract(v) adds, in order, repetitions included
ExtractedNames(v, li) ==
    CASE v.t = "string" -> MatchAllNames(v.v, li)
      [] v.t = "array" -> ExtractedFromItems(v.v, 1, li)
      [] v.t = "object" -> ExtractedFromItems([i \in 1..Len(v.v) |-> v.v[i].v], 1, li)
      [] OTHER -> <<>>

ExtractedFromItems(items, i, li) ==
    IF i > Len(items) THEN <<>>
    ELSE ExtractedNames(items[i], li) \o ExtractedFromItems(items, i + 1, li)

\* extractVariableNames(value) with VARIABLE_PATTERN.lastIndex = li:
\* Array.from(names)
extractVariableNames(value, li) == Distinct(ExtractedNames(value, li))

----------------------------------------------------------------------------
(* variable-stream.ts *)

\* A resolveVariableToString that drops a reference it cannot resolve
resolveVariableToString_DropMiss(match, st) ==
    LET parsed == parseVariableRef(match)
        value == getVariable(st, parsed.name)
        resolved == IF Len(parsed.path) > 0
                    THEN getNestedValue(value, parsed.path)
                    ELSE value
    IN  IF value.t = "undefined" THEN <<>>
        ELSE ToInterpolatedText(resolved)

\* resolveVariableToString(match, ctx)
resolveVariableToString(match, st) ==
    LET parsed == parseVariableRef(match)
        value == getVariable(st, parsed.name)
        resolved == IF Len(parsed.path) > 0
                    THEN getNestedValue(value, parsed.path)
                    ELSE value
    IN  IF value.t = "undefined" THEN match
        ELSE ToInterpolatedText(resolved)

RECURSIVE ResolveTextFrom(_, _, _)
ResolveTextFrom(text, i, st) ==
    IF i > Len(text) THEN <<>>
    ELSE IF MatchEnd(text, i) = 0
    THEN <<text[i]>> \o ResolveTextFrom(text, i + 1, st)
    ELSE resolveVariableToString(SubSeq(text, i, MatchEnd(text, i) - 1), st)
         \o ResolveTextFrom(text, MatchEnd(text, i), st)

\* A replacement that scans its own result again
resolveVariablesInText_Twice(text, st) ==
    ResolveTextFrom(ResolveTextFrom(text, 1, st), 1, st)

\* resolveVariablesInText(text, ctx)
resolveVariablesInText(text, st) == ResolveTextFrom(text, 1, st)

\* The pattern without its optional trailing dot: /^\$[a-zA-Z_][a-zA-Z0-9_]*$/
IncompletePatternTest_NoTrailingDot(s) ==
    /\ Len(s) >= 2
    /\ s[1] = "$"
    /\ IsIdentStart(s[2])
    /\ IdentEnd(s, 3) = Len(s) + 1

\* /^\$[a-zA-Z_][a-zA-Z0-9_]*\.?$/.test(s)
IncompletePatternTest(s) ==
    /\ Len(s) >= 2
    /\ s[1] = "$"
    /\ IsIdentStart(s[2])
    /\ \/ IdentEnd(s, 3) = Len(s) + 1
       \/ IdentEnd(s, 3) = Len(s) /\ s[Len(s)] = "."

\* A findIncompleteStart that answers 0 for a text without `$`
findIncompleteStart_NoDollarZero(text) ==
    LET lastDollar == LastIndexOf(text, "$")
        afterDollar == SliceFrom(text, lastDollar)
    IN  IF lastDollar = -1 THEN 0
        ELSE IF IncompletePatternTest(afterDollar) \/ afterDollar = <<"$">>
        THEN lastDollar
        ELSE -1

\* A search that also holds back a complete reference with a path,
\* `$name.field`, at the end of the text
findIncompleteStart_HoldsPath(text) ==
    LET lastDollar == LastIndexOf(text, "$")
        afterDollar == SliceFrom(text, lastDollar)
    IN  IF lastDollar = -1 THEN -1
        ELSE IF \/ IncompletePatternTest(afterDollar)
                \/ afterDollar = <<"$">>
                \/ ExactVariablePatternTest(afterDollar)
        THEN lastDollar
        ELSE -1

\* A search that tests the text after the last `$` and answers the index of
\* the first `$`
findIncompleteStart_FirstDollar(text) ==
    LET lastDollar == LastIndexOf(text, "$")
        afterDollar == SliceFrom(text, lastDollar)
        firstDollar == (CHOOSE i \in 1..Len(text) :
                           text[i] = "$" /\ \A j \in 1..(i - 1) : text[j] # "$") - 1
    IN  IF lastDollar = -1 THEN -1
        ELSE IF IncompletePatternTest(afterDollar) \/ afterDollar = <<"$">>
        THEN firstDollar
        ELSE -1

\* findIncompleteStart(text): a 0-based index, or -1
findIncompleteStart(text) ==
    LET lastDollar == LastIndexOf(text, "$")
        afterDollar == SliceFrom(text, lastDollar)
    IN  IF lastDollar = -1 THEN -1
        ELSE IF IncompletePatternTest(afterDollar) \/ afterDollar = <<"$">>
        THEN lastDollar
        ELSE -1

----------------------------------------------------------------------------
(* Inputs *)

\* variable names written to the store; the first is a proper prefix of the second
Names == {<<"a">>, <<"a", "b">>}

ToolIds == {<<"t">>, <<"u">>}

NestedObject == Obj(<<[k |-> <<"a">>, v |-> Obj(<<[k |-> <<"b">>, v |-> Num(5)]>>)]>>)

FieldObject == Obj(<<[k |-> <<"a", "b">>, v |-> Num(72)], [k |-> <<"b">>, v |-> Null]>>)

\* values a tool can return: JSON-compatible ones
JsonValues ==
    {Null, Num(5), Bool(TRUE), Str(<<"$", "a">>),
     Arr(<<Num(5), Str(<<"b">>)>>), NestedObject}

\* ... and undefined, the result of a tool that returns nothing
StoredValues == JsonValues \cup {Undefined}

\* characters of the strings handed to the resolvers
TextAlphabet == {"$", ".", "a", "b", "1", " "}

\* characters of the chunks written to the stream transform
StreamAlphabet == {"$", ".", "a", "b"}

Dollar(name) == <<"$">> \o name

\* whole-string references resolved during a session
SessionStrings ==
    {Dollar(n) : n \in Names}
    \cup {Dollar(n) \o <<".">> \o f : n \in Names, f \in {<<"a">>, <<"b">>}}

NotWritten == [t |-> "absent"]

----------------------------------------------------------------------------
(* The session: store operations and resolution calls on one RuntimeContext *)

StreamIdle ==
    /\ buffer = <<>>
    /\ received = <<>>
    /\ consumed = <<>>
    /\ out = <<>>
    /\ lastEmit = <<>>
    /\ closed = FALSE
    /\ cutKind = "none"

\* createVariableStreamTransform(ctx) was not written to
ChunksIdle ==
    /\ chunksIn = <<>>
    /\ chunksOut = <<>>

\* what invocation holds before the first call of a wrapped tool
NoInvocation == [state |-> "idle"]

\* no wrapped tool was called
ToolIdle == invocation = NoInvocation

\* const VARIABLE_PATTERN = /.../g: a new RegExp has lastIndex 0
PatternIdle == lastIndex = 0

\* the RuntimeContext objects beside the session's own
ContextIds == {"other", "fresh"}

\* new RuntimeContext(): ctx.get(STORE_KEY) is undefined
NewContext == [created |-> FALSE, store |-> <<>>]

\* let buffer = '' of a transform that was not written to
IdleStream == [buffer |-> <<>>, received |-> <<>>, out |-> <<>>, lastEmit |-> <<>>, closed |-> FALSE]

\* no other context was used, no second transform and no agent stream runs
InstancesIdle ==
    /\ contexts = [c \in ContextIds |-> NewContext]
    /\ peer = [ctx |-> "session"] @@ IdleStream
    /\ agent = IdleStream

Init ==
    /\ store = <<>>
    /\ clock = 0
    /\ written = [n \in Names |-> NotWritten]
    /\ order = <<>>
    /\ op = "none"
    /\ arg = Undefined
    /\ ret = Undefined
    /\ StreamIdle
    /\ ChunksIdle
    /\ ToolIdle
    /\ PatternIdle
    /\ InstancesIdle

\* Time passes: the next Date.now() reads a later value
Tick ==
    /\ clock < MaxClock
    /\ clock' = clock + 1
    /\ UNCHANGED <<store, written, order, callVars, streamVars, chunkVars, toolVars, patternVars,
                   instanceVars, agentVars>>

\* setVariable(ctx, name, value, toolId)
SetVariable(name, value, toolId) ==
    /\ store' = setVariable(store, name, value, toolId, clock)
    /\ written' = [written EXCEPT ![name] = value]
    /\ order' = Append(SelectSeq(order, LAMBDA n : n # name), name)
    /\ op' = "setVariable"
    /\ arg' = [name |-> name, value |-> value, toolId |-> toolId]
    /\ ret' = Undefined
    /\ UNCHANGED <<clock, streamVars, chunkVars, toolVars, patternVars, instanceVars, agentVars>>

\* clearVariables(ctx)
ClearVariables ==
    /\ store' = clearVariables(store)
    /\ written' = [n \in Names |-> NotWritten]
    /\ order' = <<>>
    /\ op' = "clearVariables"
    /\ arg' = Undefined
    /\ ret' = Undefined
    /\ UNCHANGED <<clock, streamVars, chunkVars, toolVars, patternVars, instanceVars, agentVars>>

\* A listing that sorts the entries of the store in place
ListVariables_SortsStore ==
    /\ op' = "listVariables"
    /\ arg' = Undefined
    /\ ret' = listVariables(store)
    /\ store' = SortByTimestampDesc(store)
    /\ UNCHANGED <<clock, written, order, streamVars, chunkVars, toolVars, patternVars,
                   instanceVars, agentVars>>

\* listVariables(ctx)
ListVariables ==
    /\ op' = "listVariables"
    /\ arg' = Undefined
    /\ ret' = listVariables(store)
    /\ UNCHANGED <<storeVars, streamVars, chunkVars, toolVars, patternVars, instanceVars, agentVars>>

\* resolveString(str, ctx)
ResolveString(str) ==
    /\ op' = "resolveString"
    /\ arg' = Str(str)
    /\ ret' = resolveString(str, store)
    /\ lastIndex' = LastIndexAfterResolve(Str(str), lastIndex)
    /\ UNCHANGED <<storeVars, streamVars, chunkVars, toolVars, instanceVars, agentVars>>

\* resolveVariables(value, ctx)
ResolveVariables(value) ==
    /\ op' = "resolveVariables"
    /\ arg' = value
    /\ ret' = resolveVariables(value, store)
    /\ lastIndex' = LastIndexAfterResolve(value, lastIndex)
    /\ UNCHANGED <<storeVars, streamVars, chunkVars, toolVars, instanceVars, agentVars>>

Next ==
    \/ Tick
    \/ \E n \in Names, v \in StoredValues, t \in ToolIds : SetVariable(n, v, t)
    \/ ClearVariables
    \/ ListVariables
    \/ \E s \in SessionStrings : ResolveString(s)

Spec == Init /\ [][Next]_vars

\* The writes alone: the calls that change the store
NextStore ==
    \/ Tick
    \/ \E n \in Names, v \in StoredValues, t \in ToolIds : SetVariable(n, v, t)
    \/ ClearVariables

SpecStore == Init /\ [][NextStore]_vars

----------------------------------------------------------------------------
(* variable-instructions.ts *)

\* The character U+0060, which a TLA+ string cannot hold
Backtick == "U+0060"

\* getFullInstructions: the template literal header
FullHeader ==
    <<"\n", "#", "#", " ", "T", "o", "o", "l", " ", "O", "u", "t", "p", "u", "t", " ", "V", "a",
      "r", "i", "a", "b", "l", "e", "s", "\n", "\n", "W", "h", "e", "n", " ", "y", "o", "u", " ",
      "c", "a", "l", "l", " ", "t", "o", "o", "l", "s", ",", " ", "t", "h", "e", "i", "r", " ",
      "o", "u", "t", "p", "u", "t", "s", " ", "a", "r", "e", " ", "a", "u", "t", "o", "m", "a",
      "t", "i", "c", "a", "l", "l", "y", " ", "s", "a", "v", "e", "d", " ", "a", "s", " ", "v",
      "a", "r", "i", "a", "b", "l", "e", "s", " ", "t", "h", "a", "t", " ", "y", "o", "u", " ",
      "c", "a", "n", " ", "r", "e", "f", "e", "r", "e", "n", "c", "e", " ", "i", "n", " ", "s",
      "u", "b", "s", "e", "q", "u", "e", "n", "t", " ", "t", "o", "o", "l", " ", "c", "a", "l",
      "l", "s", ".", "\n", "\n", "#", "#", "#", " ", "H", "o", "w", " ", "t", "o", " ", "u", "s",
      "e", ":", "\n", "-", " ", "R", "e", "f", "e", "r", "e", "n", "c", "e", " ", "f", "u", "l",
      "l", " ", "o", "u", "t", "p", "u", "t", ":", " ", Backtick, "\"", "$", "v", "a", "r", "i",
      "a", "b", "l", "e", "_", "n", "a", "m", "e", "\"", Backtick, "\n", "-", " ", "R", "e", "f",
      "e", "r", "e", "n", "c", "e", " ", "a", " ", "f", "i", "e", "l", "d", ":", " ", Backtick,
      "\"", "$", "v", "a", "r", "i", "a", "b", "l", "e", "_", "n", "a", "m", "e", ".", "f", "i",
      "e", "l", "d", "\"", Backtick, "\n", "-", " ", "R", "e", "f", "e", "r", "e", "n", "c", "e",
      " ", "n", "e", "s", "t", "e", "d", " ", "f", "i", "e", "l", "d", ":", " ", Backtick, "\"",
      "$", "v", "a", "r", "i", "a", "b", "l", "e", "_", "n", "a", "m", "e", ".", "f", "i", "e",
      "l", "d", ".", "s", "u", "b", "f", "i", "e", "l", "d", "\"", Backtick, "\n", "\n", "#", "#",
      "#", " ", "E", "x", "a", "m", "p", "l", "e", ":", "\n", "I", "f", " ", "y", "o", "u", " ",
      "c", "a", "l", "l", " ", "g", "e", "t", "-", "w", "e", "a", "t", "h", "e", "r", " ", "f",
      "o", "r", " ", "N", "Y", "C", " ", "a", "n", "d", " ", "i", "t", " ", "s", "a", "v", "e",
      "s", " ", "a", "s", " ", Backtick, "$", "g", "e", "t", "_", "w", "e", "a", "t", "h", "e",
      "r", "_", "n", "y", "c", Backtick, ",", " ", "y", "o", "u", " ", "c", "a", "n", " ", "t",
      "h", "e", "n", " ", "c", "a", "l", "l", " ", "a", "n", "o", "t", "h", "e", "r", " ", "t",
      "o", "o", "l", " ", "w", "i", "t", "h", ":", "\n", Backtick, Backtick, Backtick, "j", "s",
      "o", "n", "\n", "{", " ", "\"", "w", "e", "a", "t", "h", "e", "r", "D", "a", "t", "a", "\"",
      ":", " ", "\"", "$", "g", "e", "t", "_", "w", "e", "a", "t", "h", "e", "r", "_", "n", "y",
      "c", "\"", ",", " ", "\"", "t", "e", "m", "p", "e", "r", "a", "t", "u", "r", "e", "\"", ":",
      " ", "\"", "$", "g", "e", "t", "_", "w", "e", "a", "t", "h", "e", "r", "_", "n", "y", "c",
      ".", "t", "e", "m", "p", "e", "r", "a", "t", "u", "r", "e", "\"", " ", "}", "\n", Backtick,
      Backtick, Backtick, "\n", "\n", "T", "h", "e", " ", "s", "y", "s", "t", "e", "m", " ", "a",
      "u", "t", "o", "m", "a", "t", "i", "c", "a", "l", "l", "y", " ", "r", "e", "s", "o", "l",
      "v", "e", "s", " ", "t", "h", "e", "s", "e", " ", "t", "o", " ", "t", "h", "e", " ", "a",
      "c", "t", "u", "a", "l", " ", "v", "a", "l", "u", "e", "s", ".", " ", "T", "h", "i", "s",
      " ", "i", "s", " ", "f", "a", "s", "t", "e", "r", " ", "a", "n", "d", " ", "m", "o", "r",
      "e", " ", "a", "c", "c", "u", "r", "a", "t", "e", " ", "t", "h", "a", "n", " ", "r", "e",
      "-", "d", "e", "s", "c", "r", "i", "b", "i", "n", "g", " ", "d", "a", "t", "a", ".", "\n",
      "\n", "#", "#", "#", " ", "I", "m", "p", "o", "r", "t", "a", "n", "t", ":", "\n", "-", " ",
      "U", "s", "e", " ", "v", "a", "r", "i", "a", "b", "l", "e", "s", " ", "i", "n", " ", "t",
      "o", "o", "l", " ", "c", "a", "l", "l", " ", "a", "r", "g", "u", "m", "e", "n", "t", "s",
      ",", " ", "n", "o", "t", " ", "i", "n", " ", "y", "o", "u", "r", " ", "t", "e", "x", "t",
      " ", "r", "e", "s", "p", "o", "n", "s", "e", "s", "\n", "-", " ", "V", "a", "r", "i", "a",
      "b", "l", "e", "s", " ", "a", "r", "e", " ", "r", "e", "s", "o", "l", "v", "e", "d", " ",
      "a", "u", "t", "o", "m", "a", "t", "i", "c", "a", "l", "l", "y", " ", "b", "e", "f", "o",
      "r", "e", " ", "t", "o", "o", "l", "s", " ", "e", "x", "e", "c", "u", "t", "e", "\n", "-",
      " ", "T", "h", "i", "s", " ", "s", "a", "v", "e", "s", " ", "t", "o", "k", "e", "n", "s",
      " ", "a", "n", "d", " ", "e", "n", "s", "u", "r", "e", "s", " ", "d", "a", "t", "a", " ",
      "a", "c", "c", "u", "r", "a", "c", "y", "\n">>

\* '\n### Available Variables:\n'
AvailableVariablesHeading ==
    <<"\n", "#", "#", "#", " ", "A", "v", "a", "i", "l", "a", "b", "l", "e", " ", "V", "a", "r",
      "i", "a", "b", "l", "e", "s", ":", "\n">>

\* the line getFullInstructions prints for an empty store
NoVariablesText ==
    <<"N", "o", " ", "v", "a", "r", "i", "a", "b", "l", "e", "s", " ", "s", "a", "v", "e", "d",
      " ", "y", "e", "t", ".", " ", "C", "a", "l", "l", " ", "a", " ", "t", "o", "o", "l", " ",
      "t", "o", " ", "c", "r", "e", "a", "t", "e", " ", "o", "n", "e", ".", "\n">>

\* getMinimalInstructions: the text for an empty store
MinimalEmptyText ==
    <<"T", "o", "o", "l", " ", "o", "u", "t", "p", "u", "t", "s", " ", "a", "r", "e", " ", "s",
      "a", "v", "e", "d", " ", "a", "s", " ", "v", "a", "r", "i", "a", "b", "l", "e", "s", " ",
      "(", "e", ".", "g", ".", ",", " ", Backtick, "$", "t", "o", "o", "l", "_", "r", "e", "s",
      "u", "l", "t", Backtick, ")", ".", " ", "U", "s", "e", " ", "t", "h", "e", "m", " ", "i",
      "n", " ", "s", "u", "b", "s", "e", "q", "u", "e", "n", "t", " ", "t", "o", "o", "l", " ",
      "c", "a", "l", "l", "s", ".">>

\* getMinimalInstructions: the text before the names
MinimalPrefix ==
    <<"A", "v", "a", "i", "l", "a", "b", "l", "e", " ", "v", "a", "r", "i", "a", "b", "l", "e",
      "s", ":", " ">>

\* getMinimalInstructions: the text after the names
MinimalSuffix ==
    <<".", " ", "U", "s", "e", " ", "i", "n", " ", "t", "o", "o", "l", " ", "c", "a", "l", "l",
      "s", " ", "l", "i", "k", "e", ":", " ", Backtick, "{", " ", "\"", "d", "a", "t", "a", "\"",
      ":", " ", "\"", "$", "v", "a", "r", "i", "a", "b", "l", "e", "_", "n", "a", "m", "e", "\"",
      " ", "}", Backtick>>

\* getFullInstructions: how a line of the list starts
ItemPrefix ==
    <<"-", " ", Backtick, "$">>

\* ... goes on after the name
ItemFrom ==
    <<Backtick, " ", "(", "f", "r", "o", "m", " ">>

\* ... and after the tool id
ItemColon ==
    <<")", ":", " ">>

\* InstructionStyle = 'full' | 'minimal'
FullStyle == <<"f", "u", "l", "l">>

MinimalStyle == <<"m", "i", "n", "i", "m", "a", "l">>

InstructionStyles == {FullStyle, MinimalStyle}

\* v => `\`$${v.name}\``
MinimalItem(v) == <<Backtick, "$">> \o v.name \o <<Backtick>>

\* v => `- \`$${v.name}\` (from ${v.toolId}): ${v.preview}`
FullItem(v) == ItemPrefix \o v.name \o ItemFrom \o v.toolId \o ItemColon \o v.preview

\* getMinimalInstructions with the names in the opposite order
getMinimalInstructions_Reversed(infos) ==
    IF Len(infos) = 0 THEN MinimalEmptyText
    ELSE MinimalPrefix
         \o JoinWith([i \in 1..Len(infos) |-> MinimalItem(infos[Len(infos) + 1 - i])],
                     CommaSpace)
         \o MinimalSuffix

\* getMinimalInstructions(vars)
getMinimalInstructions(infos) ==
    IF Len(infos) = 0 THEN MinimalEmptyText
    ELSE MinimalPrefix
         \o JoinWith([i \in 1..Len(infos) |-> MinimalItem(infos[i])], CommaSpace)
         \o MinimalSuffix

\* getFullInstructions(vars)
getFullInstructions(infos) ==
    IF Len(infos) = 0 THEN FullHeader \o AvailableVariablesHeading \o NoVariablesText
    ELSE FullHeader \o AvailableVariablesHeading
         \o JoinWith([i \in 1..Len(infos) |-> FullItem(infos[i])], <<"\n">>)
         \o <<"\n">>

\* getVariableInstructions(ctx, style)
getVariableInstructions(st, style) ==
    IF style = MinimalStyle THEN getMinimalInstructions(listVariables(st))
    ELSE getFullInstructions(listVariables(st))

\* getVariableInstructions(ctx, style), called on the live store
GetVariableInstructions(style) ==
    /\ op' = "getVariableInstructions"
    /\ arg' = Str(style)
    /\ ret' = Str(getVariableInstructions(store, style))
    /\ UNCHANGED <<storeVars, streamVars, chunkVars, toolVars, patternVars, instanceVars, agentVars>>

\* A prompt builder: writes to the store interleaved with instruction builds
NextInstructions ==
    \/ Tick
    \/ \E n \in Names, v \in StoredValues, t \in ToolIds : SetVariable(n, v, t)
    \/ ClearVariables
    \/ \E style \in InstructionStyles : GetVariableInstructions(style)

SpecInstructions == Init /\ [][NextInstructions]_vars

----------------------------------------------------------------------------
(* Previews of large values *)

\* deepest nesting of the arrays stored for a preview
MaxDepth == 8
\* longest key of the objects stored for a preview
MaxKeyLen == 50
\* longest string stored for a preview
MaxStringLen == 104

RECURSIVE NestedArray(_, _)
\* [[...[leaf]...]], d arrays deep
NestedArray(leaf, d) ==
    IF d = 0 THEN leaf ELSE Arr(<<NestedArray(leaf, d - 1)>>)

\* a key of n + 1 characters, different for each i
LongKey(i, n) == <<(<<"a", "b", "c", "d">>)[i]>> \o [j \in 1..n |-> "k"]

\* an object of count members whose keys have n + 1 characters
WideObject(n, count) ==
    Obj([i \in 1..count |-> [k |-> LongKey(i, n), v |-> Num(5)]])

\* values a tool can return: JSON-compatible, nested or with long keys
PreviewValues ==
    {NestedArray(leaf, d) :
        leaf \in {Null, Num(5), Bool(TRUE), Str(<<"a">>)}, d \in 0..MaxDepth}
    \cup {WideObject(n, count) : n \in 0..MaxKeyLen, count \in 1..4}
    \cup {Str([j \in 1..n |-> "a"]) : n \in 98..MaxStringLen}

\* A tool result is stored and the variables are listed
NextPreview ==
    \/ \E v \in PreviewValues : SetVariable(<<"a">>, v, <<"t">>)
    \/ ListVariables

SpecPreview == Init /\ [][NextPreview]_vars

----------------------------------------------------------------------------
(* The resolvers as functions of the store and their argument *)

\* st after setVariable(name, value), or st itself for no write
StoreWith(st, name, value) ==
    IF value = NotWritten THEN st
    ELSE setVariable(st, name, value, <<"t">>, 0)

\* what the history variable holds for a store built by StoreWith
WrittenOf(st) ==
    [n \in Names |-> IF hasVariable(st, n) THEN getVariable(st, n) ELSE NotWritten]

\* store contents the resolvers are applied to
ResolveStores ==
    {StoreWith(StoreWith(<<>>, <<"a">>, v1), <<"a", "b">>, v2) :
        v1 \in StoredValues \cup {FieldObject, NotWritten},
        v2 \in {Num(5), Undefined, NotWritten}}

\* longer strings: two-segment paths, inherited properties
ExtraStrings ==
    {<<"$", "a", ".", "a", ".", "b">>,
     <<"$", "a", ".", "a", ".", "b", ".", "a">>,
     <<"b", " ", "$", "a", ".", "a", ".", "b", " ", "b">>,
     <<"$", "a", ".", "b", ".", "a">>,
     <<"$", "a", ".", "v", "a", "l", "u", "e", "O", "f">>,
     <<"$", "a", ".", "l", "e", "n", "g", "t", "h">>,
     <<"b", " ", "$", "a", ".", "v", "a", "l", "u", "e", "O", "f">>}

ResolveStrings == StringsUpTo(TextAlphabet, MaxLen) \cup ExtraStrings

DeepLeaves ==
    {Str(<<"$", "a">>), Str(<<"$", "a", ".", "a">>), Str(<<"b", "$", "a">>),
     Num(7), Null, Undefined}

\* keys of the objects passed in: a plain one, one that reads as a reference,
\* and the own key __proto__ that JSON.parse can produce
DeepKeys == {<<"a">>, <<"$", "a">>, ProtoKey}

DeepLevel1 ==
    {Arr(<<>>), Obj(<<>>)}
    \cup {Arr(<<x>>) : x \in DeepLeaves}
    \cup {Arr(<<x, y>>) : x \in DeepLeaves, y \in DeepLeaves}
    \cup {Obj(<<[k |-> k1, v |-> x]>>) : k1 \in DeepKeys, x \in DeepLeaves}
    \cup {Obj(<<[k |-> kk[1], v |-> x], [k |-> kk[2], v |-> y]>>) :
            kk \in {p \in DeepKeys \X DeepKeys : p[1] # p[2]},
            x \in DeepLeaves, y \in DeepLeaves}

DeepLevel2 ==
    {Arr(<<x>>) : x \in DeepLevel1}
    \cup {Obj(<<[k |-> k1, v |-> x]>>) : k1 \in DeepKeys, x \in DeepLevel1}

\* {data: "$a", field: "b", op: "a", value: 7}, with one-letter keys
ExampleInput ==
    Obj(<<[k |-> <<"d">>, v |-> Str(<<"$", "a">>)], [k |-> <<"f">>, v |-> Str(<<"b">>)],
          [k |-> <<"o">>, v |-> Str(<<"a">>)], [k |-> <<"v">>, v |-> Num(7)]>>)

\* short strings, most of them without a reference
DeepStrings == {Str(x) : x \in StringsUpTo(TextAlphabet, 2)}

DeepInputs ==
    DeepLeaves \cup DeepStrings \cup DeepLevel1 \cup DeepLevel2 \cup {ExampleInput}

InitResolve ==
    /\ store \in ResolveStores
    /\ clock = 0
    /\ written = WrittenOf(store)
    /\ order = [i \in 1..Len(store) |-> store[i].name]
    /\ op = "none"
    /\ arg = Undefined
    /\ ret = Undefined
    /\ StreamIdle
    /\ ChunksIdle
    /\ ToolIdle
    /\ PatternIdle
    /\ InstancesIdle

\* one call per behaviour: the resolvers read the store and write nothing
NextResolve ==
    \/ op = "none" /\ \E s \in ResolveStrings : ResolveString(s)
    \/ op = "none" /\ \E x \in DeepInputs : ResolveVariables(x)

SpecResolve == InitResolve /\ [][NextResolve]_vars

----------------------------------------------------------------------------
(* createTextStreamTransform(ctx) *)

\* store contents a transform is created over
StreamStores ==
    {StoreWith(StoreWith(<<>>, <<"a">>, v1), <<"a", "b">>, v2) :
        v1 \in {FieldObject, NotWritten}, v2 \in {Num(5), NotWritten}}

\* The reference of text that the boundary after its first p characters
\* lies strictly inside, as <<start, end>> (end exclusive), or <<0, 0>>.  No
\* reference contains a `$` past its first character, so it is the one that
\* starts at the last `$` before the boundary.
RefAround(text, p) ==
    LET s == LastIndexOf(SliceTo(text, p), "$") + 1
    IN  IF s >= 1 /\ MatchEnd(text, s) # 0 /\ p < MatchEnd(text, s) - 1
        THEN <<s, MatchEnd(text, s)>>
        ELSE <<0, 0>>

\* The boundary lies inside a reference, at most one character past the end
\* of its name: right after the `$`, in or at the end of the name, or right
\* after the first `.`
CutInName(text, p) ==
    /\ RefAround(text, p)[1] # 0
    /\ p <= IdentEnd(text, RefAround(text, p)[1] + 1)

\* The boundary lies inside a reference, further on: in or right after a
\* field name, or after a later `.`
CutInPath(text, p) ==
    /\ RefAround(text, p)[1] # 0
    /\ p > IdentEnd(text, RefAround(text, p)[1] + 1)

\* The history of boundaries once chunk follows the text seen so far: "path"
\* once any boundary fell in a reference's path, else "name" once one fell in
\* or next to a name, else "none".  A reference only grows as text arrives,
\* so a boundary is judged when the next character is there.
CutKindAfter(kind, seen, chunk) ==
    IF chunk = <<>> \/ seen = <<>> \/ kind = "path" THEN kind
    ELSE IF CutInPath(seen \o chunk, Len(seen)) THEN "path"
    ELSE IF CutInName(seen \o chunk, Len(seen)) THEN "name"
    ELSE kind

\* A transform that resolves the held-back text when it arrives and keeps the
\* resolved text in the buffer
Transform_ResolvesEarly(chunk) ==
    LET text == buffer \o chunk
        incompleteStart == findIncompleteStart(text)
        complete == SliceTo(text, incompleteStart)
    IN  /\ ~closed
        /\ received' = received \o chunk
        /\ cutKind' = CutKindAfter(cutKind, received, chunk)
        /\ IF incompleteStart >= 0
           THEN /\ buffer' = resolveVariablesInText(SliceFrom(text, incompleteStart), store)
                /\ consumed' = consumed \o complete
                /\ IF complete # <<>>
                   THEN /\ lastEmit' = <<resolveVariablesInText(complete, store)>>
                        /\ out' = out \o resolveVariablesInText(complete, store)
                   ELSE /\ lastEmit' = <<>>
                        /\ out' = out
           ELSE /\ buffer' = <<>>
                /\ consumed' = consumed \o text
                /\ lastEmit' = <<resolveVariablesInText(text, store)>>
                /\ out' = out \o resolveVariablesInText(text, store)
        /\ UNCHANGED <<closed, storeVars, callVars, chunkVars, toolVars, patternVars, instanceVars>>

\* transform(chunk, controller).  The step says nothing about the agent's
\* stream, another object: the specification that takes the step does.
Transform(chunk) ==
    LET text == buffer \o chunk
        incompleteStart == findIncompleteStart(text)
        complete == SliceTo(text, incompleteStart)
    IN  /\ ~closed
        /\ received' = received \o chunk
        /\ cutKind' = CutKindAfter(cutKind, received, chunk)
        /\ IF incompleteStart >= 0
           THEN /\ buffer' = SliceFrom(text, incompleteStart)
                /\ consumed' = consumed \o complete
                /\ IF complete # <<>>
                   THEN /\ lastEmit' = <<resolveVariablesInText(complete, store)>>
                        /\ out' = out \o resolveVariablesInText(complete, store)
                   ELSE /\ lastEmit' = <<>>
                        /\ out' = out
           ELSE /\ buffer' = <<>>
                /\ consumed' = consumed \o text
                /\ lastEmit' = <<resolveVariablesInText(text, store)>>
                /\ out' = out \o resolveVariablesInText(text, store)
        /\ UNCHANGED <<closed, storeVars, callVars, chunkVars, toolVars, patternVars, instanceVars>>

\* flush(controller), run when the writable side is closed
Flush ==
    /\ ~closed
    /\ closed' = TRUE
    /\ buffer' = <<>>
    /\ consumed' = consumed \o buffer
    /\ IF buffer # <<>>
       THEN /\ lastEmit' = <<resolveVariablesInText(buffer, store)>>
            /\ out' = out \o resolveVariablesInText(buffer, store)
       ELSE /\ lastEmit' = <<>>
            /\ out' = out
    /\ UNCHANGED <<received, cutKind, storeVars, callVars, chunkVars, toolVars, patternVars, instanceVars>>

InitStream ==
    /\ store \in StreamStores
    /\ clock = 0
    /\ written = WrittenOf(store)
    /\ order = [i \in 1..Len(store) |-> store[i].name]
    /\ op = "none"
    /\ arg = Undefined
    /\ ret = Undefined
    /\ StreamIdle
    /\ ChunksIdle
    /\ ToolIdle
    /\ PatternIdle
    /\ InstancesIdle

\* The transform alone: no agent stream runs beside it
NextStream ==
    \/ ~closed /\ \E chunk \in StringsUpTo(StreamAlphabet, MaxText - Len(received)) :
                     Transform(chunk) /\ UNCHANGED agentVars
    \/ Flush /\ UNCHANGED agentVars

SpecStream == InitStream /\ [][NextStream]_vars

----------------------------------------------------------------------------
(* Text through every resolver: one resolver call, or one stream, over the
   same store *)

NextText ==
    \/ (received = <<>> /\ ~closed) /\ NextResolve
    \/ op = "none" /\ NextStream

SpecText == InitStream /\ [][NextText]_vars

----------------------------------------------------------------------------
(* Stored text that reads as a reference *)

\* store contents whose values hold `$`: a reference to the other variable,
\* a bare `$`, and a reference to the variable itself
OnceStores ==
    {StoreWith(StoreWith(<<>>, <<"a">>, v1), <<"a", "b">>, v2) :
        v1 \in {Str(<<"$", "a", "b">>), Str(<<"$">>), Str(<<"b", "$", "a">>)},
        v2 \in {Num(5), NotWritten}}

InitOnce ==
    /\ store \in OnceStores
    /\ clock = 0
    /\ written = WrittenOf(store)
    /\ order = [i \in 1..Len(store) |-> store[i].name]
    /\ op = "none"
    /\ arg = Undefined
    /\ ret = Undefined
    /\ StreamIdle
    /\ ChunksIdle
    /\ ToolIdle
    /\ PatternIdle
    /\ InstancesIdle

SpecOnce == InitOnce /\ [][NextText]_vars

----------------------------------------------------------------------------
(* createVariableStreamTransform(ctx) *)

\* { type: 'text-delta', textDelta: s }
TextChunk(s) == [type |-> "text-delta", textDelta |-> Str(s)]

\* isTextChunk(chunk); a property the chunk does not have reads as undefined
isTextChunk(chunk) ==
    /\ chunk.type = "text-delta"
    /\ "textDelta" \in DOMAIN chunk
    /\ chunk.textDelta.t = "string"

\* text deltas written to the transform
ChunkTexts == {<<"$">>, <<"$", "a">>, <<"b">>, <<".", "b">>}

\* chunks written to the transform: text deltas, a chunk of another type,
\* and a text-delta chunk whose textDelta is not a string
StreamChunks ==
    {TextChunk(x) : x \in ChunkTexts}
    \cup {[type |-> "finish"], [type |-> "text-delta", textDelta |-> Num(5)]}

\* A transform that passes a non-text chunk on before the buffered text
ChunkTransform_PassesFirst(chunk) ==
    /\ ~closed
    /\ Len(chunksIn) < MaxChunks
    /\ chunksIn' = Append(chunksIn, chunk)
    /\ IF ~isTextChunk(chunk)
       THEN /\ chunksOut' = chunksOut \o <<chunk>>
                               \o (IF buffer # <<>>
                                   THEN <<TextChunk(resolveVariablesInText(buffer, store))>>
                                   ELSE <<>>)
            /\ buffer' = <<>>
       ELSE LET text == buffer \o chunk.textDelta.v
                incompleteStart == findIncompleteStart(text)
                complete == SliceTo(text, incompleteStart)
            IN  IF incompleteStart >= 0
                THEN /\ buffer' = SliceFrom(text, incompleteStart)
                     /\ chunksOut' =
                           IF complete # <<>>
                           THEN Append(chunksOut, TextChunk(resolveVariablesInText(complete, store)))
                           ELSE chunksOut
                ELSE /\ buffer' = <<>>
                     /\ chunksOut' =
                           Append(chunksOut, TextChunk(resolveVariablesInText(text, store)))
    /\ UNCHANGED <<closed, received, consumed, out, lastEmit, cutKind,
                   storeVars, callVars, toolVars, patternVars, instanceVars, agentVars>>

\* transform(chunk, controller)
ChunkTransform(chunk) ==
    /\ ~closed
    /\ Len(chunksIn) < MaxChunks
    /\ chunksIn' = Append(chunksIn, chunk)
    /\ IF ~isTextChunk(chunk)
       THEN /\ chunksOut' = chunksOut
                               \o (IF buffer # <<>>
                                   THEN <<TextChunk(resolveVariablesInText(buffer, store))>>
                                   ELSE <<>>)
                               \o <<chunk>>
            /\ buffer' = <<>>
       ELSE LET text == buffer \o chunk.textDelta.v
                incompleteStart == findIncompleteStart(text)
                complete == SliceTo(text, incompleteStart)
            IN  IF incompleteStart >= 0
                THEN /\ buffer' = SliceFrom(text, incompleteStart)
                     /\ chunksOut' =
                           IF complete # <<>>
                           THEN Append(chunksOut, TextChunk(resolveVariablesInText(complete, store)))
                           ELSE chunksOut
                ELSE /\ buffer' = <<>>
                     /\ chunksOut' =
                           Append(chunksOut, TextChunk(resolveVariablesInText(text, store)))
    /\ UNCHANGED <<closed, received, consumed, out, lastEmit, cutKind,
                   storeVars, callVars, toolVars, patternVars, instanceVars, agentVars>>

\* A flush that resolves the buffer as resolveString does, keeping the type
\* of the value when the buffer is exactly one reference
ChunkFlush_TypePreserving ==
    /\ ~closed
    /\ closed' = TRUE
    /\ buffer' = <<>>
    /\ chunksOut' = IF buffer # <<>>
                    THEN Append(chunksOut, [type |-> "text-delta",
                                            textDelta |-> resolveString(buffer, store)])
                    ELSE chunksOut
    /\ UNCHANGED <<chunksIn, received, consumed, out, lastEmit, cutKind,
                   storeVars, callVars, toolVars, patternVars, instanceVars, agentVars>>

\* flush(controller), run when the writable side is closed
ChunkFlush ==
    /\ ~closed
    /\ closed' = TRUE
    /\ buffer' = <<>>
    /\ chunksOut' = IF buffer # <<>>
                    THEN Append(chunksOut, TextChunk(resolveVariablesInText(buffer, store)))
                    ELSE chunksOut
    /\ UNCHANGED <<chunksIn, received, consumed, out, lastEmit, cutKind,
                   storeVars, callVars, toolVars, patternVars, instanceVars, agentVars>>

NextChunks ==
    \/ \E chunk \in StreamChunks : ChunkTransform(chunk)
    \/ ChunkFlush

SpecChunks == InitStream /\ [][NextChunks]_vars

----------------------------------------------------------------------------
(* End of stream, for either transform: one instance of one of them runs *)

\* store contents at the end of a stream; a may be stored as undefined
FlushStores == StreamStores \cup {StoreWith(<<>>, <<"a">>, Undefined)}

InitFlush ==
    /\ store \in FlushStores
    /\ clock = 0
    /\ written = WrittenOf(store)
    /\ order = [i \in 1..Len(store) |-> store[i].name]
    /\ op = "none"
    /\ arg = Undefined
    /\ ret = Undefined
    /\ StreamIdle
    /\ ChunksIdle
    /\ ToolIdle
    /\ PatternIdle
    /\ InstancesIdle

NextFlush ==
    \/ chunksIn = <<>> /\ NextStream
    \/ received = <<>> /\ NextChunks

SpecFlush == InitFlush /\ [][NextFlush]_vars

----------------------------------------------------------------------------
(* Streams over stored objects, arrays and null *)

\* store contents whose values are no strings
TypedStores ==
    {StoreWith(StoreWith(<<>>, <<"a">>, v1), <<"a", "b">>, v2) :
        v1 \in {FieldObject, Arr(<<Num(5)>>), Null},
        v2 \in {Num(5), NotWritten}}

InitTyped ==
    /\ store \in TypedStores
    /\ clock = 0
    /\ written = WrittenOf(store)
    /\ order = [i \in 1..Len(store) |-> store[i].name]
    /\ op = "none"
    /\ arg = Undefined
    /\ ret = Undefined
    /\ StreamIdle
    /\ ChunksIdle
    /\ ToolIdle
    /\ PatternIdle
    /\ InstancesIdle

SpecTyped == InitTyped /\ [][NextFlush]_vars

----------------------------------------------------------------------------
(* getNestedValue on every kind of root *)

\* most segments of a path handed to getNestedValue
MaxPath == 3

\* roots: objects, an array, scalars, null and undefined
NestedRoots ==
    {NestedObject, FieldObject, Arr(<<Num(5)>>), Str(<<"a", "b">>), Num(5), Bool(TRUE),
     Null, Undefined}

PathKeys == {<<"a">>, <<"b">>, <<"a", "b">>}

NestedPaths == UNION {[1..k -> PathKeys] : k \in 0..MaxPath}

\* "b $a" followed by "." and a segment for each segment of path
PathText(path) ==
    <<"b", " ", "$", "a">> \o JoinWith([i \in 1..Len(path) |-> <<".">> \o path[i]], <<>>)

\* a context in which a holds one of the roots
InitNested ==
    /\ store \in {StoreWith(<<>>, <<"a">>, root) : root \in NestedRoots}
    /\ clock = 0
    /\ written = WrittenOf(store)
    /\ order = [i \in 1..Len(store) |-> store[i].name]
    /\ op = "none"
    /\ arg = Undefined
    /\ ret = Undefined
    /\ StreamIdle
    /\ ChunksIdle
    /\ ToolIdle
    /\ PatternIdle
    /\ InstancesIdle

\* getNestedValue(obj, path)
GetNestedValue(obj, path) ==
    /\ op' = "getNestedValue"
    /\ arg' = [obj |-> obj, path |-> path]
    /\ ret' = getNestedValue(obj, path)
    /\ UNCHANGED <<storeVars, streamVars, chunkVars, toolVars, patternVars, instanceVars, agentVars>>

\* one call per behaviour: of getNestedValue, or of resolveString on a text
\* with a reference to a and a path
NextNested ==
    \/ op = "none" /\ \E obj \in NestedRoots, path \in NestedPaths : GetNestedValue(obj, path)
    \/ op = "none" /\ \E path \in NestedPaths : ResolveString(PathText(path))

SpecNested == InitNested /\ [][NextNested]_vars

----------------------------------------------------------------------------
(* parseVariableRef on its own *)

\* longest string handed to parseVariableRef
MaxToken == 6

TokenAlphabet == {"$", ".", "a", "B", "1", "_"}

\* A caller about to parse the string arg
InitParse ==
    /\ store = <<>>
    /\ clock = 0
    /\ written = [n \in Names |-> NotWritten]
    /\ order = <<>>
    /\ op = "none"
    /\ arg \in {Str(s) : s \in StringsUpTo(TokenAlphabet, MaxToken)}
    /\ ret = Undefined
    /\ StreamIdle
    /\ ChunksIdle
    /\ ToolIdle
    /\ PatternIdle
    /\ InstancesIdle

\* parseVariableRef(ref)
ParseVariableRef ==
    /\ op' = "parseVariableRef"
    /\ ret' = parseVariableRef(arg.v)
    /\ UNCHANGED <<arg, storeVars, streamVars, chunkVars, toolVars, patternVars,
                   instanceVars, agentVars>>

SpecParse == InitParse /\ [][ParseVariableRef]_vars

----------------------------------------------------------------------------
(* The resolver functions called one after the other *)

\* strings with no, one and two references
PatternStrings ==
    {<<"b">>, <<"$", "a">>, <<"b", " ", "$", "a">>, <<"$", "a", " ", "$", "b">>,
     <<"$", "a", ".", "b", " ", "$", "a">>}

\* values handed to the resolver functions
PatternValues ==
    {Str(s) : s \in PatternStrings}
    \cup {Arr(<<Str(s1), Str(s2)>>) : s1 \in PatternStrings, s2 \in PatternStrings}
    \cup {Obj(<<[k |-> <<"q">>, v |-> Str(s)]>>) : s \in PatternStrings}
    \cup {Arr(<<>>), Num(5), Null}

\* containsVariableRef(value)
ContainsVariableRef(value) ==
    /\ op' = "containsVariableRef"
    /\ arg' = value
    /\ ret' = Bool(containsVariableRef(value, lastIndex).result)
    /\ lastIndex' = containsVariableRef(value, lastIndex).lastIndex
    /\ UNCHANGED <<storeVars, streamVars, chunkVars, toolVars, instanceVars, agentVars>>

\* extractVariableNames(value)
ExtractVariableNames(value) ==
    /\ op' = "extractVariableNames"
    /\ arg' = value
    /\ ret' = extractVariableNames(value, lastIndex)
    /\ UNCHANGED <<storeVars, streamVars, chunkVars, toolVars, patternVars, instanceVars, agentVars>>

\* any of the four exported functions, in any order, on one context
NextPattern ==
    \/ \E value \in PatternValues : ContainsVariableRef(value)
    \/ \E value \in PatternValues : ExtractVariableNames(value)
    \/ \E s \in PatternStrings : ResolveString(s)
    \/ \E value \in PatternValues : ResolveVariables(value)

SpecPattern == Init /\ [][NextPattern]_vars

----------------------------------------------------------------------------
(* variable-tool-wrapper.ts: wrapTool(tool, options).execute *)

\* an Error object with its message
Err(msg) == [t |-> "error", v |-> msg]

\* the id of the wrapped tool
WrappedToolId == <<"t">>

\* raw inputs (params.context) of the wrapped tool: a whole-string reference,
\* a reference inside text, no reference
ToolInputs ==
    {Obj(<<[k |-> <<"q">>, v |-> Str(<<"$", "a">>)]>>),
     Obj(<<[k |-> <<"q">>, v |-> Str(<<"b", " ", "$", "a", "b">>)]>>),
     Obj(<<[k |-> <<"q">>, v |-> Str(<<"b">>)]>>)}

\* what tool.execute resolves to
ToolResults == {Num(5), NestedObject}

\* what tool.execute rejects with
ToolErrors == {Err(<<"e">>)}

\* what another writer on the same context stores while a call is running
OtherValues == {Bool(TRUE)}

\* execute, up to the await: the input is resolved and tool.execute is called
\* with the resolved input
ExecuteBegin(toolId, input) ==
    /\ invocation.state # "executing"
    /\ invocation' = [state |-> "executing", toolId |-> toolId, input |-> input,
                      resolvedContext |-> resolveVariables(input, store)]
    /\ lastIndex' = LastIndexAfterResolve(input, lastIndex)
    /\ UNCHANGED <<storeVars, callVars, streamVars, chunkVars, instanceVars, agentVars>>

\* A wrapper that writes first and resolves the input afterwards
ExecuteReturn_ResolvesAfterWrite(result, varName) ==
    /\ invocation.state = "executing"
    /\ store' = setVariable(store, varName, result, invocation.toolId, clock)
    /\ written' = [written EXCEPT ![varName] = result]
    /\ order' = Append(SelectSeq(order, LAMBDA n : n # varName), varName)
    /\ invocation' = [state |-> "returned", toolId |-> invocation.toolId,
                      input |-> invocation.input,
                      resolvedContext |-> resolveVariables(invocation.input, store'),
                      result |-> result,
                      naming |-> [toolId |-> invocation.toolId, input |-> invocation.input,
                                  output |-> result],
                      varName |-> varName,
                      returned |-> result]
    /\ UNCHANGED <<clock, callVars, streamVars, chunkVars, patternVars, instanceVars, agentVars>>

\* A wrapper that hands the resolved input to the naming strategy
ExecuteReturn_NamesResolved(result, varName) ==
    /\ invocation.state = "executing"
    /\ store' = setVariable(store, varName, result, invocation.toolId, clock)
    /\ written' = [written EXCEPT ![varName] = result]
    /\ order' = Append(SelectSeq(order, LAMBDA n : n # varName), varName)
    /\ invocation' = [state |-> "returned", toolId |-> invocation.toolId,
                      input |-> invocation.input,
                      resolvedContext |-> invocation.resolvedContext,
                      result |-> result,
                      naming |-> [toolId |-> invocation.toolId,
                                  input |-> invocation.resolvedContext,
                                  output |-> result],
                      varName |-> varName,
                      returned |-> result]
    /\ UNCHANGED <<clock, callVars, streamVars, chunkVars, patternVars, instanceVars, agentVars>>

\* execute, after the await, when tool.execute resolved to result: namingFn is
\* called with the tool id, the raw input and the result and answers varName,
\* the result is stored under it and returned
ExecuteReturn(result, varName) ==
    /\ invocation.state = "executing"
    /\ store' = setVariable(store, varName, result, invocation.toolId, clock)
    /\ written' = [written EXCEPT ![varName] = result]
    /\ order' = Append(SelectSeq(order, LAMBDA n : n # varName), varName)
    /\ invocation' = [state |-> "returned", toolId |-> invocation.toolId,
                      input |-> invocation.input,
                      resolvedContext |-> invocation.resolvedContext,
                      result |-> result,
                      naming |-> [toolId |-> invocation.toolId, input |-> invocation.input,
                                  output |-> result],
                      varName |-> varName,
                      returned |-> result]
    /\ UNCHANGED <<clock, callVars, streamVars, chunkVars, patternVars, instanceVars, agentVars>>

\* A wrapper that catches the error, stores it as the tool's output and
\* throws it again
ExecuteThrow_StoresError(error) ==
    /\ invocation.state = "executing"
    /\ store' = setVariable(store, <<"a">>, error, invocation.toolId, clock)
    /\ written' = [written EXCEPT ![<<"a">>] = error]
    /\ order' = Append(SelectSeq(order, LAMBDA n : n # <<"a">>), <<"a">>)
    /\ invocation' = [state |-> "threw", toolId |-> invocation.toolId,
                      input |-> invocation.input,
                      resolvedContext |-> invocation.resolvedContext,
                      thrown |-> error,
                      rejection |-> error]
    /\ UNCHANGED <<clock, callVars, streamVars, chunkVars, patternVars, instanceVars, agentVars>>

\* execute, after the await, when tool.execute rejected with error: the async
\* function ends there and its promise rejects with the same error
ExecuteThrow(error) ==
    /\ invocation.state = "executing"
    /\ invocation' = [state |-> "threw", toolId |-> invocation.toolId,
                      input |-> invocation.input,
                      resolvedContext |-> invocation.resolvedContext,
                      thrown |-> error,
                      rejection |-> error]
    /\ UNCHANGED <<storeVars, callVars, streamVars, chunkVars, patternVars, instanceVars, agentVars>>

\* Calls of one wrapped tool, one at a time, on a context that another
\* writer uses too
NextTool ==
    \/ Tick
    \/ \E n \in Names, v \in OtherValues : SetVariable(n, v, <<"u">>)
    \/ \E input \in ToolInputs : ExecuteBegin(WrappedToolId, input)
    \/ \E result \in ToolResults, varName \in Names : ExecuteReturn(result, varName)
    \/ \E error \in ToolErrors : ExecuteThrow(error)

SpecTool == Init /\ [][NextTool]_vars

----------------------------------------------------------------------------
(* variable-tool-wrapper.ts: the default naming strategy *)

\* const identifiers = [...]
IdentifierFields ==
    <<<<"l", "o", "c", "a", "t", "i", "o", "n">>,
      <<"n", "a", "m", "e">>,
      <<"i", "d">>,
      <<"q", "u", "e", "r", "y">>,
      <<"c", "i", "t", "y">>,
      <<"s", "y", "m", "b", "o", "l">>,
      <<"t", "i", "c", "k", "e", "r">>>>

UpperToLower ==
    "A" :> "a" @@ "B" :> "b" @@ "C" :> "c" @@ "D" :> "d" @@ "E" :> "e" @@ "F" :> "f" @@
    "G" :> "g" @@ "H" :> "h" @@ "I" :> "i" @@ "J" :> "j" @@ "K" :> "k" @@ "L" :> "l" @@
    "M" :> "m" @@ "N" :> "n" @@ "O" :> "o" @@ "P" :> "p" @@ "Q" :> "q" @@ "R" :> "r" @@
    "S" :> "s" @@ "T" :> "t" @@ "U" :> "u" @@ "V" :> "v" @@ "W" :> "w" @@ "X" :> "x" @@
    "Y" :> "y" @@ "Z" :> "z"

\* String.prototype.toLowerCase()
toLowerCase(s) ==
    [i \in 1..Len(s) |-> IF s[i] \in DOMAIN UpperToLower THEN UpperToLower[s[i]] ELSE s[i]]

\* [a-z0-9]
SanitizedChars == (IdentChars \ DOMAIN UpperToLower) \ {"_"}

RECURSIVE ReplaceRunsFrom(_, _)
\* .replace(/[^a-z0-9]+/g, '_') from index i on: each longest run of other
\* characters becomes one underscore
ReplaceRunsFrom(s, i) ==
    IF i > Len(s) THEN <<>>
    ELSE IF s[i] \in SanitizedChars THEN <<s[i]>> \o ReplaceRunsFrom(s, i + 1)
    ELSE IF i < Len(s) /\ s[i + 1] \notin SanitizedChars THEN ReplaceRunsFrom(s, i + 1)
    ELSE <<"_">> \o ReplaceRunsFrom(s, i + 1)

\* .replace(/^_|_$/g, ''): an underscore at the start and one at the end go
StripEnds(s) ==
    LET a == IF s # <<>> /\ s[1] = "_" THEN Tail(s) ELSE s
    IN  IF a # <<>> /\ a[Len(a)] = "_" THEN SubSeq(a, 1, Len(a) - 1) ELSE a

\* value.toLowerCase().replace(/[^a-z0-9]+/g, '_').replace(/^_|_$/g, '')
Sanitize(value) == StripEnds(ReplaceRunsFrom(toLowerCase(value), 1))

\* toolId.replace(/-/g, '_')
ReplaceHyphens(toolId) ==
    [i \in 1..Len(toolId) |-> IF toolId[i] = "-" THEN "_" ELSE toolId[i]]

RECURSIVE FirstIdentifier_AnyType(_, _)
\* A loop that does not test typeof inputObj[key] === 'string' and takes the
\* text of whatever the field holds
FirstIdentifier_AnyType(inputObj, i) ==
    IF i > Len(IdentifierFields) THEN <<>>
    ELSE LET field == GetProperty(inputObj, IdentifierFields[i])
             text == IF field.t = "string" THEN field.v ELSE ToInterpolatedText(field)
         IN  IF field.t # "undefined" /\ Sanitize(text) # <<>>
             THEN Sanitize(text)
             ELSE FirstIdentifier_AnyType(inputObj, i + 1)

RECURSIVE FirstIdentifier(_, _)
\* the for loop from identifiers[i] on: the sanitized value it returns with,
\* <<>> when it ends without a return
FirstIdentifier(inputObj, i) ==
    IF i > Len(IdentifierFields) THEN <<>>
    ELSE LET field == GetProperty(inputObj, IdentifierFields[i])
         IN  IF field.t = "string" /\ Sanitize(field.v) # <<>>
             THEN Sanitize(field.v)
             ELSE FirstIdentifier(inputObj, i + 1)

\* defaultNaming(toolId, input, _output), with now the value of Date.now()
defaultNaming(toolId, input, output, now) ==
    LET sanitized == IF IsObjectType(input) THEN FirstIdentifier(input, 1) ELSE <<>>
    IN  IF sanitized # <<>>
        THEN ReplaceHyphens(toolId) \o <<"_">> \o sanitized
        ELSE ReplaceHyphens(toolId) \o <<"_">> \o NumberText(now)

\* characters of the field values handed to defaultNaming
NamingAlphabet == {"a", "B", "-", "_", "7"}

\* longest field value handed to defaultNaming
MaxField == 3

\* tool ids: any string is accepted as the id of a tool
NamingToolIds ==
    {<<"t">>, <<"g", "-", "w">>, <<"a", "-", "b", "-", "c">>, <<"7", "z">>, <<"g", ".", "w">>}

Field(key, value) == [k |-> key, v |-> value]

\* inputs of a tool: objects with or without the identifier fields, with
\* fields that are no strings, and values that are no objects
NamingInputs ==
    {Obj(<<Field(IdentifierFields[2], Str(s))>>) : s \in StringsUpTo(NamingAlphabet, MaxField)}
    \cup {Obj(<<Field(IdentifierFields[i], Str(<<"B", " ", "a">>))>>) :
             i \in 1..Len(IdentifierFields)}
    \cup UNION {{Obj(<<Field(IdentifierFields[i], Str(<<"a">>)),
                       Field(IdentifierFields[j], Str(<<"B">>))>>) :
                    j \in 1..Len(IdentifierFields) \ {i}} : i \in 1..Len(IdentifierFields)}
    \cup {Obj(<<Field(IdentifierFields[1], v), Field(IdentifierFields[5], Str(<<"a">>))>>) :
             v \in {Num(5), Null, Bool(TRUE), Str(<<"-">>), Str(<<>>), Arr(<<Str(<<"a">>)>>)}}
    \cup {Obj(<<Field(<<"q">>, Str(<<"a">>))>>), Obj(<<>>), Arr(<<Str(<<"a">>)>>),
          Str(<<"a">>), Num(5), Null, Undefined}

\* A caller about to name the output of the tool arg.toolId for the input
\* arg.input
InitNaming ==
    /\ store = <<>>
    /\ clock = 0
    /\ written = [n \in Names |-> NotWritten]
    /\ order = <<>>
    /\ op = "none"
    /\ arg \in [toolId : NamingToolIds, input : NamingInputs]
    /\ ret = Undefined
    /\ StreamIdle
    /\ ChunksIdle
    /\ ToolIdle
    /\ PatternIdle
    /\ InstancesIdle

\* defaultNaming(toolId, input, undefined)
DefaultNaming ==
    /\ op' = "defaultNaming"
    /\ arg' = [toolId |-> arg.toolId, input |-> arg.input, now |-> clock]
    /\ ret' = Str(defaultNaming(arg.toolId, arg.input, Undefined, clock))
    /\ UNCHANGED <<storeVars, streamVars, chunkVars, toolVars, patternVars, instanceVars, agentVars>>

NextNaming ==
    \/ Tick
    \/ DefaultNaming

SpecNaming == InitNaming /\ [][NextNaming]_vars

\* inputs of the wrapped tool: two without a usable identifier field and one
\* with the name "a"
FallbackInputs ==
    {Obj(<<Field(<<"q">>, Str(<<"b">>))>>),
     Obj(<<Field(IdentifierFields[2], Str(<<"-">>))>>),
     Obj(<<Field(IdentifierFields[2], Str(<<"a">>))>>)}

\* A tool wrapped without options: namingFn is defaultNaming, and Date.now()
\* is read when the output is named
NextDefaultTool ==
    \/ Tick
    \/ \E input \in FallbackInputs : ExecuteBegin(WrappedToolId, input)
    \/ \E result \in ToolResults :
          ExecuteReturn(result,
                        defaultNaming(invocation.toolId, invocation.input, result, clock))
    \/ \E error \in ToolErrors : ExecuteThrow(error)

SpecDefaultTool == Init /\ [][NextDefaultTool]_vars

----------------------------------------------------------------------------
(* The reads of the store, beside its writes *)

\* getVariable(ctx, name)
GetVariable(name) ==
    /\ op' = "getVariable"
    /\ arg' = Str(name)
    /\ ret' = getVariable(store, name)
    /\ UNCHANGED <<storeVars, streamVars, chunkVars, toolVars, patternVars, instanceVars, agentVars>>

\* getVariableWithMeta(ctx, name)
GetVariableWithMeta(name) ==
    /\ op' = "getVariableWithMeta"
    /\ arg' = Str(name)
    /\ ret' = getVariableWithMeta(store, name)
    /\ UNCHANGED <<storeVars, streamVars, chunkVars, toolVars, patternVars, instanceVars, agentVars>>

\* hasVariable(ctx, name)
HasVariable(name) ==
    /\ op' = "hasVariable"
    /\ arg' = Str(name)
    /\ ret' = Bool(hasVariable(store, name))
    /\ UNCHANGED <<storeVars, streamVars, chunkVars, toolVars, patternVars, instanceVars, agentVars>>

\* values handed to resolveVariables: an array and an object that hold
\* references, a string, and a value without strings
ReadInputs ==
    {Arr(<<Str(<<"$", "a">>), Num(5)>>),
     Obj(<<[k |-> <<"q">>, v |-> Arr(<<Str(<<"$", "a", "b", ".", "a">>)>>)],
           [k |-> <<"r">>, v |-> Str(<<"x", "$", "a">>)]>>),
     Str(<<"$", "a", "b">>),
     Null}

\* values the session stores between the reads
ReadValues == {Num(5), Str(<<"$", "a">>), NestedObject}

\* every exported read and both resolvers, between the writes of a session
NextReads ==
    \/ Tick
    \/ \E n \in Names, v \in ReadValues, t \in ToolIds : SetVariable(n, v, t)
    \/ ClearVariables
    \/ ListVariables
    \/ \E n \in Names : GetVariable(n)
    \/ \E n \in Names : GetVariableWithMeta(n)
    \/ \E n \in Names : HasVariable(n)
    \/ \E s \in SessionStrings : ResolveString(s)
    \/ \E x \in ReadInputs : ResolveVariables(x)
    \/ \E style \in InstructionStyles : GetVariableInstructions(style)

SpecReads == Init /\ [][NextReads]_vars

----------------------------------------------------------------------------
(* A stream over a store that is written while the text arrives *)

\* characters of the fragments of a stream that runs beside tool calls
LiveAlphabet == {"$", "a", "."}

\* the input of the tool that runs beside the stream
LiveInput == Obj(<<[k |-> <<"q">>, v |-> Str(<<"b">>)]>>)

\* One text stream, and beside it calls of one wrapped tool whose result is
\* stored as `a`, and clearVariables
NextLive ==
    \/ ~closed /\ \E chunk \in StringsUpTo(LiveAlphabet, MaxText - Len(received)) :
                     Transform(chunk) /\ UNCHANGED agentVars
    \/ Flush /\ UNCHANGED agentVars
    \/ ClearVariables
    \/ ExecuteBegin(WrappedToolId, LiveInput)
    \/ ExecuteReturn(Num(7), <<"a">>)

SpecLive == InitStream /\ [][NextLive]_vars

----------------------------------------------------------------------------
(* variable-agent.ts: the textStream of the wrapped agent's stream() *)

\* resolveText(text): the same statements as resolveVariableToString under
\* text.replace(VARIABLE_PATTERN, ...), with a pattern object of its own
resolveText(text, st) == resolveVariablesInText(text, st)

\* A loop that closes the stream without emitting what the buffer holds
AgentDone_DropsBuffer ==
    /\ ~agent.closed
    /\ agent' = [agent EXCEPT !.lastEmit = <<>>, !.closed = TRUE]

\* start(controller): one turn of the loop in which reader.read() answers
\* { done: false, value }.  The findIncompleteStart of stream() has the
\* statements of the one in variable-stream.ts.
AgentRead(value) ==
    LET text == agent.buffer \o value
        incompleteStart == findIncompleteStart(text)
        complete == SliceTo(text, incompleteStart)
    IN  /\ ~agent.closed
        /\ agent' =
              IF incompleteStart >= 0
              THEN [buffer |-> SliceFrom(text, incompleteStart),
                    received |-> agent.received \o value,
                    out |-> IF complete # <<>>
                            THEN agent.out \o resolveText(complete, store)
                            ELSE agent.out,
                    lastEmit |-> IF complete # <<>>
                                 THEN <<resolveText(complete, store)>>
                                 ELSE <<>>,
                    closed |-> FALSE]
              ELSE [buffer |-> <<>>,
                    received |-> agent.received \o value,
                    out |-> agent.out \o resolveText(text, store),
                    lastEmit |-> <<resolveText(text, store)>>,
                    closed |-> FALSE]

\* start(controller): the turn in which reader.read() answers { done: true };
\* the buffer is emitted if it holds text, the stream is closed and the loop
\* ends
AgentDone ==
    /\ ~agent.closed
    /\ agent' = [agent EXCEPT
                    !.out = IF agent.buffer # <<>>
                            THEN agent.out \o resolveText(agent.buffer, store)
                            ELSE agent.out,
                    !.lastEmit = IF agent.buffer # <<>>
                                 THEN <<resolveText(agent.buffer, store)>>
                                 ELSE <<>>,
                    !.closed = TRUE]

\* One source of fragments read by the agent's loop and written to a
\* createTextStreamTransform over the same context; the source ends for both
NextAgent ==
    \/ ~closed /\ \E chunk \in StringsUpTo(StreamAlphabet, MaxText - Len(received)) :
                     Transform(chunk) /\ AgentRead(chunk)
    \/ Flush /\ AgentDone

SpecAgent == InitStream /\ [][NextAgent]_vars

----------------------------------------------------------------------------
(* Two createTextStreamTransform instances *)

\* A getStore that keeps one Map, the session's, for every context
getStore_OneMap(ctxs, c) == store

\* getStore(ctx) for another context: the Map under STORE_KEY, a new empty
\* one when there is none
getStore(ctxs, c) == IF ctxs[c].created THEN ctxs[c].store ELSE <<>>

\* the context after getStore(ctx) and the change of the Map to st
WithStore(ctxs, c, st) == [ctxs EXCEPT ![c] = [created |-> TRUE, store |-> st]]

\* the Map the second instance reads: the session's or another context's
PeerStore == IF peer.ctx = "session" THEN store ELSE getStore(contexts, peer.ctx)

\* resolveVariablesInText(text, ctx) calls getVariable, and with it getStore,
\* once for every reference of text
ContextsAfterResolve(text) ==
    IF peer.ctx # "session" /\ Matches(text) # <<>>
    THEN WithStore(contexts, peer.ctx, getStore(contexts, peer.ctx))
    ELSE contexts

\* A second instance whose transform reads and writes the buffer of the
\* first
PeerTransform_SharedBuffer(chunk) ==
    LET text == buffer \o chunk
        incompleteStart == findIncompleteStart(text)
        complete == SliceTo(text, incompleteStart)
    IN  /\ ~peer.closed
        /\ buffer' = IF incompleteStart >= 0 THEN SliceFrom(text, incompleteStart) ELSE <<>>
        /\ peer' = [peer EXCEPT
                       !.received = peer.received \o chunk,
                       !.out = IF incompleteStart >= 0 /\ complete = <<>> THEN peer.out
                               ELSE peer.out \o resolveVariablesInText(
                                        IF incompleteStart >= 0 THEN complete ELSE text, PeerStore),
                       !.lastEmit = IF incompleteStart >= 0 /\ complete = <<>> THEN <<>>
                                    ELSE <<resolveVariablesInText(
                                        IF incompleteStart >= 0 THEN complete ELSE text, PeerStore)>>]
        /\ UNCHANGED <<contexts, received, consumed, out, lastEmit, closed, cutKind,
                       storeVars, callVars, chunkVars, toolVars, patternVars, agentVars>>

\* transform(chunk, controller) of the second instance
PeerTransform(chunk) ==
    LET text == peer.buffer \o chunk
        incompleteStart == findIncompleteStart(text)
        complete == SliceTo(text, incompleteStart)
    IN  /\ ~peer.closed
        /\ IF incompleteStart >= 0
           THEN /\ peer' = [peer EXCEPT
                               !.buffer = SliceFrom(text, incompleteStart),
                               !.received = peer.received \o chunk,
                               !.out = IF complete # <<>>
                                       THEN peer.out \o resolveVariablesInText(complete, PeerStore)
                                       ELSE peer.out,
                               !.lastEmit = IF complete # <<>>
                                            THEN <<resolveVariablesInText(complete, PeerStore)>>
                                            ELSE <<>>]
                /\ contexts' = ContextsAfterResolve(complete)
           ELSE /\ peer' = [peer EXCEPT
                               !.buffer = <<>>,
                               !.received = peer.received \o chunk,
                               !.out = peer.out \o resolveVariablesInText(text, PeerStore),
                               !.lastEmit = <<resolveVariablesInText(text, PeerStore)>>]
                /\ contexts' = ContextsAfterResolve(text)
        /\ UNCHANGED <<storeVars, callVars, streamVars, chunkVars, toolVars, patternVars,
                       agentVars>>

\* flush(controller) of the second instance
PeerFlush ==
    /\ ~peer.closed
    /\ peer' = [peer EXCEPT
                   !.buffer = <<>>,
                   !.out = IF peer.buffer # <<>>
                           THEN peer.out \o resolveVariablesInText(peer.buffer, PeerStore)
                           ELSE peer.out,
                   !.lastEmit = IF peer.buffer # <<>>
                                THEN <<resolveVariablesInText(peer.buffer, PeerStore)>>
                                ELSE <<>>,
                   !.closed = TRUE]
    /\ contexts' = ContextsAfterResolve(peer.buffer)
    /\ UNCHANGED <<storeVars, callVars, streamVars, chunkVars, toolVars, patternVars,
                   agentVars>>

\* most characters written to each of two instances that run side by side
MaxPeerText == 3

\* Two instances: the second over the session's context or over another one,
\* in which a holds 7
InitInstances ==
    /\ store \in StreamStores
    /\ clock = 0
    /\ written = WrittenOf(store)
    /\ order = [i \in 1..Len(store) |-> store[i].name]
    /\ op = "none"
    /\ arg = Undefined
    /\ ret = Undefined
    /\ StreamIdle
    /\ ChunksIdle
    /\ ToolIdle
    /\ PatternIdle
    /\ contexts = [c \in ContextIds |->
                      IF c = "other"
                      THEN [created |-> TRUE, store |-> StoreWith(<<>>, <<"a">>, Num(7))]
                      ELSE NewContext]
    /\ \E c \in {"session", "other"} : peer = [ctx |-> c] @@ IdleStream
    /\ agent = IdleStream

\* fragments reach the two instances in any interleaving
NextInstances ==
    \/ ~closed /\ \E chunk \in StringsUpTo(LiveAlphabet, MaxPeerText - Len(received)) :
                     Transform(chunk) /\ UNCHANGED agentVars
    \/ Flush /\ UNCHANGED agentVars
    \/ \E chunk \in StringsUpTo(LiveAlphabet, MaxPeerText - Len(peer.received)) :
          PeerTransform(chunk)
    \/ PeerFlush

SpecInstances == InitInstances /\ [][NextInstances]_vars

----------------------------------------------------------------------------
(* The store's operations on another RuntimeContext *)

\* setVariable(ctx, name, value, toolId) on the context c
SetVariableIn(c, name, value, toolId) ==
    /\ contexts' = WithStore(contexts, c,
                             setVariable(getStore(contexts, c), name, value, toolId, clock))
    /\ op' = "setVariable"
    /\ arg' = [ctx |-> c, name |-> name, value |-> value, toolId |-> toolId]
    /\ ret' = Undefined
    /\ UNCHANGED <<storeVars, streamVars, chunkVars, toolVars, patternVars, peer, agentVars>>

\* clearVariables(ctx) on the context c
ClearVariablesIn(c) ==
    /\ contexts' = WithStore(contexts, c, clearVariables(getStore(contexts, c)))
    /\ op' = "clearVariables"
    /\ arg' = [ctx |-> c]
    /\ ret' = Undefined
    /\ UNCHANGED <<storeVars, streamVars, chunkVars, toolVars, patternVars, peer, agentVars>>

\* getVariable(ctx, name) on the context c
GetVariableIn(c, name) ==
    /\ contexts' = WithStore(contexts, c, getStore(contexts, c))
    /\ op' = "getVariable"
    /\ arg' = [ctx |-> c, name |-> name]
    /\ ret' = getVariable(getStore(contexts, c), name)
    /\ UNCHANGED <<storeVars, streamVars, chunkVars, toolVars, patternVars, peer, agentVars>>

\* listVariables(ctx) on the context c
ListVariablesIn(c) ==
    /\ contexts' = WithStore(contexts, c, getStore(contexts, c))
    /\ op' = "listVariables"
    /\ arg' = [ctx |-> c]
    /\ ret' = listVariables(getStore(contexts, c))
    /\ UNCHANGED <<storeVars, streamVars, chunkVars, toolVars, patternVars, peer, agentVars>>

\* resolveString(str, ctx) on the context c; getStore is reached through
\* getVariable, when str holds a reference
ResolveStringIn(c, str) ==
    /\ contexts' = IF Matches(str) # <<>>
                   THEN WithStore(contexts, c, getStore(contexts, c))
                   ELSE contexts
    /\ op' = "resolveString"
    /\ arg' = [ctx |-> c, str |-> str]
    /\ ret' = resolveString(str, getStore(contexts, c))
    /\ lastIndex' = LastIndexAfterResolve(Str(str), lastIndex)
    /\ UNCHANGED <<storeVars, streamVars, chunkVars, toolVars, peer, agentVars>>

\* values stored through the session's context
SessionValues == {Num(5), NestedObject}

\* The same operations on the session's context and on two others
NextContexts ==
    \/ \E n \in Names, v \in SessionValues : SetVariable(n, v, <<"t">>)
    \/ ClearVariables
    \/ \E n \in Names : GetVariable(n)
    \/ ListVariables
    \/ \E n \in Names : ResolveString(Dollar(n))
    \/ \E c \in ContextIds, n \in Names : SetVariableIn(c, n, Num(7), <<"u">>)
    \/ \E c \in ContextIds : ClearVariablesIn(c)
    \/ \E c \in ContextIds, n \in Names : GetVariableIn(c, n)
    \/ \E c \in ContextIds : ListVariablesIn(c)
    \/ \E c \in ContextIds, n \in Names : ResolveStringIn(c, Dollar(n))

SpecContexts == Init /\ [][NextContexts]_vars

----------------------------------------------------------------------------
(* A wrapped tool called with another runtime context, or with none *)

\* params.runtimeContext when the caller supplies none
NoContext == "undefined"

\* A wrapper that falls back to a context it shares with other callers
ContextOf_SharedDefault(runtimeContext) ==
    IF runtimeContext = NoContext THEN "other" ELSE runtimeContext

\* const ctx = runtimeContext ?? new RuntimeContext()
ContextOf(runtimeContext) ==
    IF runtimeContext = NoContext THEN "fresh" ELSE runtimeContext

\* the contexts when execute has its ctx: a context made by new
\* RuntimeContext() has no store, whatever an earlier one held
ContextsAt(runtimeContext) ==
    IF runtimeContext = NoContext /\ ContextOf(runtimeContext) = "fresh"
    THEN [contexts EXCEPT !["fresh"] = NewContext]
    ELSE contexts

RECURSIVE HasReference(_)
\* resolveVariables(value, ctx) reaches getVariable, and with it getStore,
\* when a string of value holds a reference
HasReference(value) ==
    CASE value.t = "string" -> Matches(value.v) # <<>>
      [] value.t = "array" -> \E i \in 1..Len(value.v) : HasReference(value.v[i])
      [] value.t = "object" -> \E i \in 1..Len(value.v) : HasReference(value.v[i].v)
      [] OTHER -> FALSE

\* execute, up to the await, called with runtimeContext (another context, or
\* none): the input is resolved against ctx and tool.execute is called with
\* the resolved input and ctx
ExecuteBeginIn(runtimeContext, toolId, input) ==
    LET ctx == ContextOf(runtimeContext)
        ctxs == ContextsAt(runtimeContext)
    IN  /\ invocation.state # "executing"
        /\ invocation' = [state |-> "executing", toolId |-> toolId, input |-> input,
                          resolvedContext |-> resolveVariables(input, getStore(ctxs, ctx)),
                          runtimeContext |-> runtimeContext,
                          ctx |-> ctx,
                          passedContext |-> ctx]
        /\ contexts' = IF HasReference(input)
                       THEN WithStore(ctxs, ctx, getStore(ctxs, ctx))
                       ELSE ctxs
        /\ lastIndex' = LastIndexAfterResolve(input, lastIndex)
        /\ UNCHANGED <<storeVars, callVars, streamVars, chunkVars, peer, agentVars>>

\* execute, after the await: the result is named and written to ctx
ExecuteReturnIn(result, varName) ==
    /\ invocation.state = "executing"
    /\ "ctx" \in DOMAIN invocation
    /\ contexts' = WithStore(contexts, invocation.ctx,
                             setVariable(getStore(contexts, invocation.ctx), varName, result,
                                         invocation.toolId, clock))
    /\ invocation' = [state |-> "returned", toolId |-> invocation.toolId,
                      input |-> invocation.input,
                      resolvedContext |-> invocation.resolvedContext,
                      runtimeContext |-> invocation.runtimeContext,
                      ctx |-> invocation.ctx,
                      passedContext |-> invocation.passedContext,
                      result |-> result,
                      varName |-> varName,
                      returned |-> result]
    /\ UNCHANGED <<storeVars, callVars, streamVars, chunkVars, patternVars, peer, agentVars>>

\* Calls of one wrapped tool with the session's context, with another one and
\* with none, over contexts in which `a` may be stored
NextToolContexts ==
    \/ SetVariable(<<"a">>, Num(5), <<"u">>)
    \/ SetVariableIn("other", <<"a">>, Bool(TRUE), <<"u">>)
    \/ \E input \in ToolInputs : ExecuteBegin(WrappedToolId, input)
    \/ "ctx" \notin DOMAIN invocation /\
          \E varName \in Names : ExecuteReturn(NestedObject, varName)
    \/ \E rc \in {"other", NoContext}, input \in ToolInputs :
          ExecuteBeginIn(rc, WrappedToolId, input)
    \/ \E varName \in Names : ExecuteReturnIn(NestedObject, varName)

SpecToolContexts == Init /\ [][NextToolContexts]_vars

----------------------------------------------------------------------------
(* Properties of the stream transform *)

\* C1: No split emission.  Once the stream is flushed, the concatenation of
\* everything emitted equals the embedded resolution of the unfragmented
\* text, for every store content and every fragmentation, boundaries inside
\* a field name included.
C1_NoSplitEmission ==
    closed => out = resolveVariablesInText(received, store)

\* The text from the last `$` of s to its end, empty when s has no `$`
TailFromLastDollar(s) ==
    IF LastIndexOf(s, "$") = -1 THEN <<>> ELSE SliceFrom(s, LastIndexOf(s, "$"))

\* s is `$`, or `$` and an identifier, or `$`, an identifier and one `.`
IsNamePrefix(s) ==
    /\ s # <<>>
    /\ s[1] = "$"
    /\ \/ Len(s) = 1
       \/ /\ IsIdentStart(s[2])
          /\ \A i \in 3..(Len(s) - 1) : IsIdentChar(s[i])
          /\ Len(s) >= 3 => (IsIdentChar(s[Len(s)]) \/ s[Len(s)] = ".")

\* C2: Name-split holdback.  While the text received so far ends in `$`, in
\* `$` and part of a name, or in `$name.`, nothing from that `$` on has been
\* emitted; and as long as no boundary fell in the path of a reference, the
\* output so far followed by the resolution of the held-back text equals the
\* resolution of the text received so far, so that after flush the output
\* equals the resolution of the unfragmented text.
C2_NameSplitHoldback ==
    /\ (~closed /\ IsNamePrefix(TailFromLastDollar(received)))
          => /\ buffer = TailFromLastDollar(received)
             /\ consumed \o buffer = received
    /\ cutKind # "path"
          => out \o resolveVariablesInText(buffer, store)
                = resolveVariablesInText(received, store)

\* C2 witness: `$ab` arrived as `$a` and `b` while a and ab are both stored;
\* it was resolved as the one reference $ab
C2_Witness ==
    /\ closed
    /\ cutKind = "name"
    /\ received = <<"$", "a", "b">>
    /\ hasVariable(store, <<"a">>)
    /\ hasVariable(store, <<"a", "b">>)
    /\ out = <<"5">>

\* Every reference of s that is complete (it has a path, or text follows it)
\* names a variable that is not stored
NoSettledStoredRef(s, st) ==
    \A i \in 1..Len(Matches(s)) :
        LET m == Matches(s)[i]
            ref == parseVariableRef(SubSeq(s, m[1], m[2] - 1))
        IN  (m[2] <= Len(s) \/ ref.path # <<>>) => ~hasVariable(st, ref.name)

\* No reference of s names a stored variable
NoStoredRef(s, st) ==
    \A i \in 1..Len(Matches(s)) :
        ~hasVariable(st, parseVariableRef(SubSeq(s, Matches(s)[i][1], Matches(s)[i][2] - 1)).name)

\* C6: No text is lost, duplicated or reordered.  The raw text consumed for
\* emission followed by the pending buffer is the text received so far; when
\* no reference of the input names a stored variable, the output is a prefix
\* of the input, and equals it after flush.
C6_NoTextLost ==
    /\ consumed \o buffer = received
    /\ (~closed /\ NoSettledStoredRef(received, store)) => IsPrefix(out, received)
    /\ (closed /\ NoStoredRef(received, store)) => out = received

\* C6 witness: a reference to a name that is not stored, split inside the
\* name, came out literally after flush, beside a stored prefix of the name
C6_Witness ==
    /\ closed
    /\ cutKind = "name"
    /\ hasVariable(store, <<"a">>)
    /\ ~hasVariable(store, <<"a", "b">>)
    /\ received = <<"b", "$", "a", "b", ".">>
    /\ out = received

NoDollar(s) == \A i \in 1..Len(s) : s[i] # "$"

\* C7: Idempotence of non-reference text.  resolveString and resolveVariables
\* return a string without `$` unchanged; a chunk without `$` that arrives
\* while the stream buffer is empty is emitted at once, unchanged, as one
\* fragment, and the buffer stays empty, whatever the store contains.
C7_NonReferenceIdempotence ==
    /\ []((op = "resolveString" /\ NoDollar(arg.v)) => ret = arg)
    /\ []((op = "resolveVariables" /\ arg.t = "string" /\ NoDollar(arg.v)) => ret = arg)
    /\ [][LET chunk == SubSeq(received', Len(received) + 1, Len(received'))
          IN  (streamVars' # streamVars /\ ~closed' /\ buffer = <<>> /\ NoDollar(chunk))
                 => /\ lastEmit' = <<chunk>>
                    /\ out' = out \o chunk
                    /\ buffer' = <<>>]_vars

\* C7 witness: with a and ab stored, the chunk `a.b` that followed `.` came
\* out at once as it is
C7_Witness ==
    /\ hasVariable(store, <<"a">>)
    /\ hasVariable(store, <<"a", "b">>)
    /\ ~closed
    /\ received = <<".", "a", ".", "b">>
    /\ lastEmit = <<(<<"a", ".", "b">>)>>
    /\ out = received
    /\ buffer = <<>>

----------------------------------------------------------------------------
(* Properties of the resolvers *)

\* C3: Round-trip identity.  After set(n, v) with v JSON-compatible and until
\* the next set(n) or clear, resolveString("$n") returns v itself, whatever
\* was set under other names in between.
C3_RoundTrip ==
    \A n \in Names :
        (op = "resolveString" /\ arg = Str(Dollar(n)) /\ written[n] \in JsonValues)
            => ret = written[n]

\* C3 witness: $a resolved to the stored object after ab was written later
C3_Witness ==
    /\ op = "resolveString"
    /\ arg = Str(<<"$", "a">>)
    /\ order = <<(<<"a">>), (<<"a", "b">>)>>
    /\ written[<<"a">>] = NestedObject
    /\ ret = NestedObject

\* the name of a reference: the identifier after its `$`
NameOf(ref) == SubSeq(ref, 2, IdentEnd(ref, 2) - 1)

\* the field names of a reference, in order
PathOf(ref) == Tail(Split(SliceFrom(ref, 1), "."))

RECURSIVE JsonLookup(_, _)
\* The member of the JSON data v at the end of path: undefined when a step is
\* not a key of an object
JsonLookup(v, path) ==
    IF path = <<>> THEN v
    ELSE IF v.t = "object" /\ HasOwn(v, Head(path))
    THEN JsonLookup(OwnValue(v, Head(path)), Tail(path))
    ELSE Undefined

\* C4: Nested access.  A whole-string reference $n.p1...pk, k >= 1, to a
\* stored n resolves to the member of the stored value at that path, with
\* its type, and to undefined when a step is absent or passes through null,
\* undefined or a scalar.
C4_NestedAccess ==
    (/\ op = "resolveString"
     /\ ExactVariablePatternTest(arg.v)
     /\ PathOf(arg.v) # <<>>
     /\ hasVariable(store, NameOf(arg.v)))
        => ret = JsonLookup(getVariable(store, NameOf(arg.v)), PathOf(arg.v))

\* What a reference occurrence must become: itself when its name is not
\* stored; when it is, what resolveString makes of it (strict = FALSE) or
\* the text of the member of the stored data at its path (strict = TRUE)
OccurrenceText(ref, st, strict) ==
    IF ~hasVariable(st, NameOf(ref)) THEN ref
    ELSE IF strict
    THEN ToInterpolatedText(JsonLookup(getVariable(st, NameOf(ref)), PathOf(ref)))
    ELSE ResolveStringReplacer(ref, st)

RECURSIVE Rebuilt(_, _, _, _, _)
\* s from index pos on with its k-th and later occurrences replaced by their
\* OccurrenceText and all text between them as it is
Rebuilt(s, k, pos, st, strict) ==
    IF k > Len(Matches(s)) THEN SubSeq(s, pos, Len(s))
    ELSE SubSeq(s, pos, Matches(s)[k][1] - 1)
         \o OccurrenceText(SubSeq(s, Matches(s)[k][1], Matches(s)[k][2] - 1), st, strict)
         \o Rebuilt(s, k + 1, Matches(s)[k][2], st, strict)

\* C5: Miss preservation.  A whole-string reference to a name that is not
\* stored is returned as the input string; inside longer text every such
\* reference stays as written while the other occurrences are resolved.
C5_MissPreservation ==
    op = "resolveString" =>
        /\ (ExactVariablePatternTest(arg.v) /\ ~hasVariable(store, NameOf(arg.v)))
              => ret = arg
        /\ ~ExactVariablePatternTest(arg.v)
              => ret = Str(Rebuilt(arg.v, 1, 1, store, FALSE))

\* C5 witness: in `$b$a` the missing $b stayed and the stored $a was resolved
C5_Witness ==
    /\ op = "resolveString"
    /\ arg = Str(<<"$", "b", "$", "a">>)
    /\ getVariable(store, <<"a">>) = Num(5)
    /\ ret = Str(<<"$", "b", "5">>)

\* C8: Interpolation coercion.  In a string that is not exactly one
\* reference, every occurrence whose name is stored is replaced by "null",
\* "undefined" (also for a field path that does not exist), JSON text or the
\* plain string form of the value; the rest is unchanged and the result is
\* a string.
C8_InterpolationCoercion ==
    (op = "resolveString" /\ ~ExactVariablePatternTest(arg.v))
        => ret = Str(Rebuilt(arg.v, 1, 1, store, TRUE))

RECURSIVE DeepResolved(_, _, _)
\* y is x with every string resolved, arrays and objects keeping their shape
DeepResolved(x, y, st) ==
    CASE x.t = "string" -> y = resolveString(x.v, st)
      [] x.t = "array" ->
            /\ y.t = "array"
            /\ Len(y.v) = Len(x.v)
            /\ \A i \in 1..Len(x.v) : DeepResolved(x.v[i], y.v[i], st)
      [] x.t = "object" ->
            /\ y.t = "object"
            /\ Keys(y) = Keys(x)
            /\ \A i \in 1..Len(x.v) : DeepResolved(x.v[i].v, y.v[i].v, st)
      [] OTHER -> y = x

\* C9: Deep resolution.  resolveVariables maps a string through resolveString,
\* an array element-wise, a plain object value-wise with its keys as they
\* are, and anything else to itself; the example input with an array stored
\* yields that array under its first key and the other fields unchanged.
C9_DeepResolution ==
    op = "resolveVariables" =>
        /\ DeepResolved(arg, ret, store)
        /\ (arg = ExampleInput /\ getVariable(store, <<"a">>).t = "array")
              => ret = Obj([ExampleInput.v EXCEPT
                               ![1] = [k |-> <<"d">>, v |-> getVariable(store, <<"a">>)]])

----------------------------------------------------------------------------
(* Properties of the store *)

\* xs backwards
Reverse(xs) == [i \in 1..Len(xs) |-> xs[Len(xs) + 1 - i]]

\* C10: Most-recent-first listing.  listVariables returns one entry per
\* stored name, a name written more recently before every name whose last
\* write was earlier, also when writes read the same clock value.
C10_MostRecentFirst ==
    op = "listVariables" => [i \in 1..Len(ret) |-> ret[i].name] = Reverse(order)

\* the names of a sequence of entries, in its order
NamesOf(xs) == [i \in 1..Len(xs) |-> xs[i].name]

\* C11: List ordering after overwrite.  When x was written first, then y,
\* and x was written again after the last write of y, listVariables returns
\* exactly [x, y], whether or not the clock moved between the writes.
C11_ListAfterOverwrite ==
    \A x \in Names, y \in Names :
        (/\ x # y
         /\ op = "listVariables"
         /\ NamesOf(store) = <<x, y>>
         /\ order = <<y, x>>)
            => NamesOf(ret) = <<x, y>>

\* C11 witness: a, ab, a written at one clock reading, then listed
C11_Witness ==
    /\ op = "listVariables"
    /\ NamesOf(store) = <<(<<"a">>), (<<"a", "b">>)>>
    /\ order = <<(<<"a", "b">>), (<<"a">>)>>
    /\ store[1].timestamp = store[2].timestamp
    /\ NamesOf(ret) = <<(<<"a">>), (<<"a", "b">>)>>

\* the StoredVariable of one call of setVariable at clock reading now
StoredVariableOf(call, now) ==
    Obj(<<[k |-> <<"v", "a", "l", "u", "e">>, v |-> call.value],
          [k |-> <<"t", "o", "o", "l", "I", "d">>, v |-> Str(call.toolId)],
          [k |-> <<"t", "i", "m", "e", "s", "t", "a", "m", "p">>, v |-> Num(now)]>>)

\* C12: set overwrites fully and touches nothing else.  A call of
\* setVariable(n, v, t) leaves getVariable(n) = v, getVariableWithMeta(n) =
\* {value: v, toolId: t, timestamp: the clock reading of the call} and
\* hasVariable(n) true, leaves the entry of every other name as it was, and
\* the store holds one entry per name.
C12_SetOverwritesFully ==
    [][(op' = "setVariable" /\ clock' = clock) =>
          /\ getVariable(store', arg'.name) = arg'.value
          /\ getVariableWithMeta(store', arg'.name) = StoredVariableOf(arg', clock)
          /\ hasVariable(store', arg'.name)
          /\ \A m \in Names \ {arg'.name} :
                /\ getVariableWithMeta(store', m) = getVariableWithMeta(store, m)
                /\ hasVariable(store', m) = hasVariable(store, m)
          /\ \A i \in 1..Len(store'), j \in 1..Len(store') :
                store'[i].name = store'[j].name => i = j
          /\ Len(store') = Len(store) + (IF hasVariable(store, arg'.name) THEN 0 ELSE 1)]_vars

\* C12 witness: a, first written before ab by tool t, was overwritten by tool
\* u at a later clock reading; the entry of ab is the one of clock reading 0
C12_Witness ==
    /\ op = "setVariable"
    /\ arg = [name |-> <<"a">>, value |-> Num(5), toolId |-> <<"u">>]
    /\ NamesOf(store) = <<(<<"a">>), (<<"a", "b">>)>>
    /\ store[1] = [name |-> <<"a">>, value |-> Num(5), toolId |-> <<"u">>, timestamp |-> 1]
    /\ store[2].timestamp = 0
    /\ store[2].toolId = <<"t">>
    /\ clock = 1

C14_ClearEmpties ==
    /\ [][(op' = "clearVariables" /\ clock' = clock) => store' = <<>>]_vars
    /\ [](store = <<>> =>
             /\ \A n \in Names : ~hasVariable(store, n) /\ getVariable(store, n) = Undefined
             /\ op = "listVariables" => ret = <<>>
             /\ op = "resolveString" => ret = arg)
    /\ []((op = "setVariable" /\ order = <<arg.name>>) =>
             \E now \in 0..clock : store = setVariable(<<>>, arg.name, arg.value, arg.toolId, now))

\* C14 witness: clearVariables has run and left the store empty, at a later
\* clock reading than the first
C14_Witness ==
    /\ op = "clearVariables"
    /\ store = <<>>
    /\ order = <<>>
    /\ clock = 1

----------------------------------------------------------------------------
(* Properties of the tool wrapper *)

\* a step in which the running call ends by failing
ExecuteFails == invocation.state = "executing" /\ invocation'.state = "threw"

\* a step in which the running call ends by returning
ExecuteSucceeds == invocation.state = "executing" /\ invocation'.state = "returned"

\* C15: Failed tool calls write nothing.  When the wrapped tool's execute
\* fails, the wrapper fails with the same error, the naming strategy is not
\* consulted and the store is exactly as it was: no variable added, none
\* overwritten.
C15_FailedCallsWriteNothing ==
    [][ExecuteFails =>
          /\ invocation'.rejection = invocation'.thrown
          /\ "naming" \notin DOMAIN invocation'
          /\ store' = store]_vars

\* C15 witness: a call on a store that holds a variable failed with the
\* tool's error, and the variable is as the other writer left it
C15_Witness ==
    /\ invocation.state = "threw"
    /\ invocation.rejection = Err(<<"e">>)
    /\ invocation.input = Obj(<<[k |-> <<"q">>, v |-> Str(<<"$", "a">>)]>>)
    /\ invocation.resolvedContext = Obj(<<[k |-> <<"q">>, v |-> Bool(TRUE)]>>)
    /\ NamesOf(store) = <<(<<"a">>)>>
    /\ store[1].toolId = <<"u">>

\* C16: Successful tool calls store and return the result.  When execute
\* returns r for the raw input i, the wrapper returns r itself, the naming
\* strategy has received the tool id, the raw input i and r, and the store
\* maps the name it answered to {value: r, toolId}; every other entry is as
\* it was.
C16_SuccessfulCallsStoreResult ==
    [][ExecuteSucceeds =>
          /\ invocation'.returned = invocation'.result
          /\ invocation'.naming = [toolId |-> invocation.toolId,
                                   input |-> invocation.input,
                                   output |-> invocation'.result]
          /\ getVariableWithMeta(store', invocation'.varName)
                = StoredVariableOf([value |-> invocation'.result,
                                    toolId |-> invocation.toolId], clock)
          /\ \A m \in Names \ {invocation'.varName} :
                getVariableWithMeta(store', m) = getVariableWithMeta(store, m)
          /\ Len(store') = Len(store) + (IF hasVariable(store, invocation'.varName) THEN 0 ELSE 1)]_vars

\* C16 witness: the call with raw input {q: "$a"}, resolved to {q: true},
\* returned the tool's object; naming got the raw input; the object is stored
\* under ab beside a
C16_Witness ==
    /\ invocation.state = "returned"
    /\ invocation.input = Obj(<<[k |-> <<"q">>, v |-> Str(<<"$", "a">>)]>>)
    /\ invocation.resolvedContext = Obj(<<[k |-> <<"q">>, v |-> Bool(TRUE)]>>)
    /\ invocation.naming.input = invocation.input
    /\ invocation.returned = NestedObject
    /\ invocation.varName = <<"a", "b">>
    /\ getVariable(store, <<"a", "b">>) = NestedObject
    /\ getVariable(store, <<"a">>) = Bool(TRUE)

\* C17: Resolve-before-execute ordering.  The input is deep-resolved against
\* the store as it is when the call starts and execute runs with that
\* resolved input; the call writes the store only when execute has returned,
\* so a reference to the name the call itself writes sees the previous entry
\* of that name, or stays literal.
C17_ResolveBeforeExecute ==
    /\ [][(invocation.state # "executing" /\ invocation'.state = "executing") =>
             /\ invocation'.resolvedContext = resolveVariables(invocation'.input, store)
             /\ store' = store]_vars
    /\ [][invocation.state = "executing" =>
             /\ invocation'.resolvedContext = invocation.resolvedContext
             /\ invocation'.input = invocation.input
             /\ (store' # store /\ invocation'.state = "executing") => op' = "setVariable"]_vars

\* C17 witness: the call with input {q: "$a"} ran with the previous value of
\* a, true, and then wrote its own result 5 under a
C17_Witness ==
    /\ invocation.state = "returned"
    /\ invocation.input = Obj(<<[k |-> <<"q">>, v |-> Str(<<"$", "a">>)]>>)
    /\ invocation.varName = <<"a">>
    /\ invocation.resolvedContext = Obj(<<[k |-> <<"q">>, v |-> Bool(TRUE)]>>)
    /\ getVariable(store, <<"a">>) = Num(5)

----------------------------------------------------------------------------
(* Properties of the chunk transform and of the end of a stream *)

\* the chunks of cs that are not text chunks, in order
NonText(cs) == SelectSeq(cs, LAMBDA c : ~isTextChunk(c))

RECURSIVE TextBefore(_, _)
\* the text of the text chunks of cs that precede its k-th non-text chunk
TextBefore(cs, k) ==
    IF cs = <<>> THEN <<>>
    ELSE IF isTextChunk(Head(cs)) THEN Head(cs).textDelta.v \o TextBefore(Tail(cs), k)
    ELSE IF k = 1 THEN <<>>
    ELSE TextBefore(Tail(cs), k - 1)

\* C18: Non-text fragments flush and pass through.  A non-text chunk makes the
\* transform emit the buffered text, resolved, as one text chunk (nothing for
\* an empty buffer) and then the chunk itself, and leaves the buffer empty;
\* the non-text chunks come out once each in the order received, each after
\* all the text received before it.
C18_NonTextFlushesAndPasses ==
    /\ [][(Len(chunksIn') = Len(chunksIn) + 1 /\ ~isTextChunk(chunksIn'[Len(chunksIn')])) =>
             /\ buffer' = <<>>
             /\ chunksOut' = chunksOut
                               \o (IF buffer = <<>> THEN <<>>
                                   ELSE <<TextChunk(resolveVariablesInText(buffer, store))>>)
                               \o <<chunksIn'[Len(chunksIn')]>>]_vars
    /\ [](NonText(chunksOut) = NonText(chunksIn))
    /\ [](store = <<>> =>
             \A k \in 1..Len(NonText(chunksIn)) :
                 TextBefore(chunksOut, k) = TextBefore(chunksIn, k))

\* C18 witness: `$a` and `b` were held back; the finish chunk made the
\* transform emit the value of $ab and then the finish chunk
C18_Witness ==
    /\ chunksIn = <<TextChunk(<<"$", "a">>), TextChunk(<<"b">>), [type |-> "finish"]>>
    /\ chunksOut = <<TextChunk(<<"5">>), [type |-> "finish"]>>
    /\ buffer = <<>>

\* What a held-back text must become at the end of the stream: `$` and a
\* missing name stay as they are, a stored name becomes the text of its value
FlushedText(held, st) ==
    IF Len(held) >= 2 /\ hasVariable(st, NameOf(held))
    THEN ToInterpolatedText(getVariable(st, NameOf(held)))
         \o (IF held[Len(held)] = "." THEN <<".">> ELSE <<>>)
    ELSE held

\* C19: Flush completes the stream.  At the end of the stream a non-empty
\* buffer is resolved as complete text - a stored $name substituted, a
\* missing one or a bare `$` literal - and emitted as the last fragment; the
\* buffer is empty then and all text received has been handed on; held-back
\* text leaves the buffer only with a later fragment or the flush.
C19_FlushCompletes ==
    /\ [][(~closed /\ closed') =>
             /\ buffer' = <<>>
             /\ (buffer = <<>>) => (out' = out /\ chunksOut' = chunksOut)
             /\ (buffer # <<>> /\ received # <<>>) =>
                    (lastEmit' = <<FlushedText(buffer, store)>>
                        /\ out' = out \o FlushedText(buffer, store))
             /\ (buffer # <<>> /\ chunksIn # <<>>) =>
                    chunksOut' = Append(chunksOut, TextChunk(FlushedText(buffer, store)))]_vars
    /\ [](closed => (buffer = <<>> /\ consumed = received))
    /\ [][buffer' # buffer => (closed' \/ received' # received \/ chunksIn' # chunksIn)]_vars

----------------------------------------------------------------------------
(* The instruction text and the live store *)

\* text holds the characters of part starting at some index
Contains(text, part) ==
    \E i \in 1..(Len(text) - Len(part) + 1) :
        /\ text[i] = part[1]
        /\ SubSeq(text, i, i + Len(part) - 1) = part

\* the name n written as a reference between backticks
QuotedReference(n) == <<Backtick, "$">> \o n \o <<Backtick>>

AppearsAsReference(text, n) == Contains(text, QuotedReference(n))

\* the names the fixed example sentences show between backticks
ExampleNames ==
    {<<"t", "o", "o", "l", "_", "r", "e", "s", "u", "l", "t">>,
     <<"g", "e", "t", "_", "w", "e", "a", "t", "h", "e", "r", "_", "n", "y", "c">>}

\* the part of a full text after the fixed header
AfterHeader(text) == SubSeq(text, Len(FullHeader) + 1, Len(text))

\* the line of the full list for one entry of listVariables
ListedLine(info) ==
    <<"-", " ">> \o QuotedReference(info.name) \o <<" ", "(", "f", "r", "o", "m", " ">>
        \o info.toolId \o <<")", ":", " ">> \o info.preview

\* C20 as stated: whenever getVariableInstructions has returned, any name
\* appears in the text as a reference between backticks if and only if the
\* store holds it at that moment; in particular no name appears when the
\* store is empty.
C20_NameAppearsIffStored ==
    op = "getVariableInstructions" =>
        \A n \in Names \cup ExampleNames :
            AppearsAsReference(ret.v, n) <=> hasVariable(store, n)

\* C20: whenever getVariableInstructions has returned, its text is built from
\* the store as it is at that moment.  In minimal mode the text of an empty
\* store is the fixed sentence, and otherwise the fixed prefix, the stored
\* names as references between backticks joined by ", " in listVariables
\* order, and the fixed suffix; a name the writers use appears there as a
\* reference between backticks exactly when it is stored.  In full mode the
\* text is the fixed header, the heading, and either the fixed no-variables
\* line or one line per entry of listVariables, in that order, each with the
\* name, the tool id and the preview; every stored name appears after the
\* header.  The text is a function of the store alone.
C20_InstructionsFromLiveStore ==
    op = "getVariableInstructions" =>
        LET infos == listVariables(store)
            names == NamesOf(infos)
            text  == ret.v
        IN  /\ ret.t = "string"
            /\ arg.v = MinimalStyle =>
                 /\ text = IF names = <<>> THEN MinimalEmptyText
                           ELSE MinimalPrefix
                                \o JoinWith([i \in 1..Len(names) |->
                                                QuotedReference(names[i])], CommaSpace)
                                \o MinimalSuffix
                 /\ \A n \in Names :
                        AppearsAsReference(text, n) <=> hasVariable(store, n)
            /\ arg.v = FullStyle =>
                 /\ SubSeq(text, 1, Len(FullHeader)) = FullHeader
                 /\ AfterHeader(text) =
                        AvailableVariablesHeading
                        \o (IF names = <<>> THEN NoVariablesText
                            ELSE JoinWith([i \in 1..Len(infos) |-> ListedLine(infos[i])],
                                          <<"\n">>) \o <<"\n">>)
                 /\ \A n \in Names :
                        hasVariable(store, n) => AppearsAsReference(AfterHeader(text), n)

\* a minimal build on a store whose newest entry was inserted last: the text
\* lists ab before a, the order of listVariables and not of insertion
C20_Witness ==
    /\ op = "getVariableInstructions"
    /\ arg = Str(MinimalStyle)
    /\ NamesOf(store) = <<(<<"a">>), (<<"a", "b">>)>>
    /\ NamesOf(listVariables(store)) = <<(<<"a", "b">>), (<<"a">>)>>
    /\ ret.v = MinimalPrefix
               \o <<Backtick, "$", "a", "b", Backtick, ",", " ", Backtick, "$", "a", Backtick>>
               \o MinimalSuffix

----------------------------------------------------------------------------
(* The length of a preview *)

\* C21: every preview that listVariables returns has at most the limit of
\* 100 characters plus the three of the ellipsis marker, whatever
\* JSON-compatible value is stored.
C21_BoundedPreview ==
    op = "listVariables" =>
        \A i \in 1..Len(ret) : Len(ret[i].preview) <= PreviewMaxLength + Len(Ellipsis)

----------------------------------------------------------------------------
(* The default naming strategy *)

RECURSIVE WordsFrom(_, _, _)
\* the longest runs of characters a-z0-9 of s from index i on, cur being the
\* run read so far
WordsFrom(s, i, cur) ==
    IF i > Len(s) THEN (IF cur = <<>> THEN <<>> ELSE <<cur>>)
    ELSE IF s[i] \in SanitizedChars THEN WordsFrom(s, i + 1, Append(cur, s[i]))
    ELSE (IF cur = <<>> THEN <<>> ELSE <<cur>>) \o WordsFrom(s, i + 1, <<>>)

\* the sanitized form: the words of the lower-cased value joined by "_"
SanitizedForm(value) == JoinWith(WordsFrom(toLowerCase(value), 1, <<>>), <<"_">>)

\* the identifier fields of input, by their position in the list, that hold
\* a string with a non-empty sanitized form
UsableFields(input) ==
    {i \in 1..Len(IdentifierFields) :
        /\ input.t = "object"
        /\ HasOwn(input, IdentifierFields[i])
        /\ OwnValue(input, IdentifierFields[i]).t = "string"
        /\ SanitizedForm(OwnValue(input, IdentifierFields[i]).v) # <<>>}

----------------------------------------------------------------------------
(* Fallback names *)

\* C23: when an invocation of the wrapped tool without a usable identifier
\* field succeeds, the name it stores its result under is not yet in the
\* store, whatever the clock reads: no earlier result is overwritten.  (Here
\* the wrapped tool is the only writer and the names of earlier results are
\* the names in the store.)
C23_FallbackNamesUnique ==
    [][(/\ invocation.state = "executing"
        /\ invocation'.state = "returned"
        /\ UsableFields(invocation.input) = {})
       => ~hasVariable(store, invocation'.varName)]_vars

----------------------------------------------------------------------------
(* Each reference is resolved once *)

\* what one pass over the references of s gives: the value for a string that
\* is exactly one reference, and otherwise s with each of its own references
\* replaced and the replacements left as they are
OnceResolved(s, st) ==
    IF ExactVariablePatternTest(s)
    THEN IF ~hasVariable(st, NameOf(s)) THEN Str(s)
         ELSE getNestedValue(getVariable(st, NameOf(s)), PathOf(s))
    ELSE Str(Rebuilt(s, 1, 1, st, FALSE))

\* the text of consumed' that this step took out of the buffer and the chunk
NewlyConsumed == SubSeq(consumed', Len(consumed) + 1, Len(consumed'))

\* C24: Each reference is resolved exactly once.  resolveString, and
\* resolveVariables on a string or on the strings of an array, answer what one
\* pass over the references of the input gives: a stored string that reads as
\* a reference comes back as it is.  In the text stream the buffer holds only
\* text as received, never resolved output, and each step adds to the output
\* one pass over the received text it consumed.
C24_ResolvedOnce ==
    /\ [](op = "resolveString" => ret = OnceResolved(arg.v, store))
    /\ []((op = "resolveVariables" /\ arg.t = "string") => ret = OnceResolved(arg.v, store))
    /\ []((op = "resolveVariables" /\ arg.t = "array") =>
             \A i \in 1..Len(arg.v) :
                arg.v[i].t = "string" => ret.v[i] = OnceResolved(arg.v[i].v, store))
    /\ [](consumed \o buffer = received)
    /\ [][out' = out \o (IF NewlyConsumed = <<>> THEN <<>>
                         ELSE Rebuilt(NewlyConsumed, 1, 1, store, FALSE))]_vars

\* a holds the text "$ab" and ab is stored: "$a$b", received in pieces, came
\* out as "$ab$b": the "$ab" that replaced $a stayed, and it was emitted
\* while the `$` after it was held back
C24_Witness ==
    /\ getVariable(store, <<"a">>) = Str(<<"$", "a", "b">>)
    /\ getVariable(store, <<"a", "b">>) = Num(5)
    /\ received = <<"$", "a", "$", "b">>
    /\ closed
    /\ lastEmit = <<(<<"$", "b">>)>>
    /\ out = <<"$", "a", "b", "$", "b">>

----------------------------------------------------------------------------
(* The split point of the text stream transform *)

\* the fragment a step of the transform received
Fragment == SubSeq(received', Len(received) + 1, Len(received'))

----------------------------------------------------------------------------
(* Streamed text is interpolated *)

\* the text that replaces the reference ref to a stored variable
InterpolatedValue(ref, st) ==
    ToInterpolatedText(getNestedValue(getVariable(st, NameOf(ref)), PathOf(ref)))

\* C26: The stream always uses string interpolation.  Every chunk the chunk
\* transform has emitted is a chunk it received that is no text chunk, or a
\* text-delta chunk whose textDelta is a string.  When the whole text of a
\* stream is exactly one reference to a stored variable, and no boundary fell
\* in its path, what has been emitted after the flush is the text of the
\* value - JSON text for an object or array, "null" for null - for the text
\* transform and for the chunk transform alike.
C26_StreamInterpolates ==
    /\ \A i \in 1..Len(chunksOut) :
          \/ /\ ~isTextChunk(chunksOut[i])
             /\ \E j \in 1..Len(chunksIn) : chunksIn[j] = chunksOut[i]
          \/ /\ chunksOut[i].type = "text-delta"
             /\ chunksOut[i].textDelta.t = "string"
    /\ (/\ closed
        /\ cutKind # "path"
        /\ ExactVariablePatternTest(received)
        /\ hasVariable(store, NameOf(received)))
          => out = InterpolatedValue(received, store)
    /\ (/\ closed
        /\ Len(chunksIn) = 1
        /\ isTextChunk(chunksIn[1])
        /\ ExactVariablePatternTest(chunksIn[1].textDelta.v)
        /\ hasVariable(store, NameOf(chunksIn[1].textDelta.v)))
          => chunksOut = <<TextChunk(InterpolatedValue(chunksIn[1].textDelta.v, store))>>

\* the one chunk of a stream was the text "$a" while a holds the array [5]:
\* the chunk emitted at the flush carries the string "[5]"
C26_Witness ==
    /\ closed
    /\ getVariable(store, <<"a">>) = Arr(<<Num(5)>>)
    /\ chunksIn = <<TextChunk(<<"$", "a">>)>>
    /\ chunksOut = <<TextChunk(<<"[", "5", "]">>)>>

----------------------------------------------------------------------------
(* getNestedValue is total *)

RECURSIVE Followed(_, _, _)
\* the value reached after the first n segments of path, starting at root:
\* each segment is read as a key of an object or array, and of anything else
\* the next value is undefined
Followed(root, path, n) ==
    IF n = 0 THEN root
    ELSE LET prev == Followed(root, path, n - 1)
         IN  IF prev.t \in {"object", "array"} THEN GetProperty(prev, path[n])
             ELSE Undefined

\* C27: getNestedValue is total.  It returns the root for an empty path and
\* otherwise the value reached by following the segments as keys, undefined
\* once the current value is null, undefined or a scalar with segments
\* remaining; and in an interpolated string a reference to the stored root
\* whose path ends in undefined is rendered as the text "undefined".
C27_NestedValueTotal ==
    /\ op = "getNestedValue" =>
          /\ ret = Followed(arg.obj, arg.path, Len(arg.path))
          /\ arg.path = <<>> => ret = arg.obj
          /\ (arg.path # <<>> /\ ~IsObjectType(arg.obj)) => ret = Undefined
    /\ op = "resolveString" =>
          LET ref   == SubSeq(arg.v, 3, Len(arg.v))
              root  == store[1].value
              path  == PathOf(ref)
          IN  (path # <<>> /\ Followed(root, path, Len(path)) = Undefined)
                 => ret = Str(<<"b", " ">> \o UndefinedText)

----------------------------------------------------------------------------
(* Parsing a reference and writing it again *)

\* s is an identifier: [a-zA-Z_][a-zA-Z0-9_]*
IsIdentifier(s) ==
    /\ s # <<>>
    /\ IsIdentStart(s[1])
    /\ \A i \in 2..Len(s) : IsIdentChar(s[i])

RECURSIVE Dotted(_)
\* each segment of path with "." before it
Dotted(path) ==
    IF path = <<>> THEN <<>> ELSE <<".">> \o Head(path) \o Dotted(Tail(path))

\* C28: Reference parsing round-trips.  For a string that is exactly one
\* reference, parseVariableRef returns the first identifier as name and the
\* remaining identifiers, in order, as path - no segment for a bare `$name` -
\* so that "$", the name and each segment with "." before it give the string
\* again; the name and every segment are identifiers, none is empty.
C28_ParseRoundTrip ==
    (op = "parseVariableRef" /\ ExactVariablePatternTest(arg.v)) =>
        /\ <<"$">> \o ret.name \o Dotted(ret.path) = arg.v
        /\ IsIdentifier(ret.name)
        /\ \A i \in 1..Len(ret.path) : IsIdentifier(ret.path[i])
        /\ IsPrefix(<<"$">> \o ret.name, arg.v)
        /\ Len(ret.path) = Cardinality({i \in 1..Len(arg.v) : arg.v[i] = "."})

\* `$a.B._` was parsed into the name a and the path B, _
C28_Witness ==
    /\ op = "parseVariableRef"
    /\ arg = Str(<<"$", "a", ".", "B", ".", "_">>)
    /\ ret = [name |-> <<"a">>, path |-> <<(<<"B">>), (<<"_">>)>>]

----------------------------------------------------------------------------
(* The resolver's predicates depend on their argument alone *)

RECURSIVE StringsOf(_)
\* the strings in value: the string itself, array elements and object
\* values, at any depth
StringsOf(value) ==
    CASE value.t = "string" -> {value.v}
      [] value.t = "array" -> UNION {StringsOf(value.v[i]) : i \in 1..Len(value.v)}
      [] value.t = "object" -> UNION {StringsOf(value.v[i].v) : i \in 1..Len(value.v)}
      [] OTHER -> {}

\* the names of the references of s
ReferencedNames(s) ==
    {NameOf(SubSeq(s, Matches(s)[k][1], Matches(s)[k][2] - 1)) : k \in 1..Len(Matches(s))}

\* C29: containsVariableRef depends only on its argument.  Whenever it has
\* returned, whatever calls came before, its result is true exactly when some
\* string in its argument contains a reference.
C29_ContainsDependsOnArgument ==
    op = "containsVariableRef" =>
        ret = Bool(\E s \in StringsOf(arg) : Matches(s) # <<>>)

\* C30: extractVariableNames returns all names.  Whenever it has returned,
\* whatever calls came before, its result holds each name referenced in a
\* string of its argument once, and nothing else.
C30_ExtractReturnsAllNames ==
    op = "extractVariableNames" =>
        /\ {ret[i] : i \in 1..Len(ret)} = UNION {ReferencedNames(s) : s \in StringsOf(arg)}
        /\ \A i, j \in 1..Len(ret) : ret[i] = ret[j] => i = j

----------------------------------------------------------------------------
(* Resolution and reads leave the store alone *)

\* the calls that read the store
ReadOps ==
    {"resolveString", "resolveVariables", "getVariable", "getVariableWithMeta",
     "hasVariable", "listVariables", "getVariableInstructions"}

\* C31: Resolution and reads are side-effect free.  A step that makes one of
\* the calls resolveString, resolveVariables, getVariable,
\* getVariableWithMeta, hasVariable, listVariables or getVariableInstructions
\* leaves the store as it was: the same names in the same order, each with
\* its value, tool id and timestamp.  The call returns (the step exists for
\* every input), and the value handed to resolveVariables is the same value
\* after the call.
C31_ReadsAreSideEffectFree ==
    [][(op' \in ReadOps /\ <<op, arg, ret>>' # <<op, arg, ret>>) =>
          /\ store' = store
          /\ written' = written
          /\ order' = order
          /\ op' = "resolveVariables" =>
                \E x \in ReadInputs : arg' = x /\ ret' = resolveVariables(x, store)]_vars

\* resolveVariables has built a new array from one that holds `$a`, with two
\* variables stored
C31_Witness ==
    /\ op = "resolveVariables"
    /\ arg = Arr(<<Str(<<"$", "a">>), Num(5)>>)
    /\ ret = Arr(<<NestedObject, Num(5)>>)
    /\ Len(store) = 2

----------------------------------------------------------------------------
(* Names the default strategy produces, as references *)

\* C38: Default names are referenceable.  Every name the default naming
\* strategy returns, for every tool id and input, matches the identifier
\* grammar [A-Za-z_][A-Za-z0-9_]*, so that `$` + name is a whole-string
\* reference whose name is the returned name.
C38_DefaultNamesReferenceable ==
    op = "defaultNaming" =>
        /\ IsIdentifier(ret.v)
        /\ ExactVariablePatternTest(Dollar(ret.v))
        /\ parseVariableRef(Dollar(ret.v)) = [name |-> ret.v, path |-> <<>>]

----------------------------------------------------------------------------
(* The shape of the pending buffer *)

\* s is `$`, or `$` and an identifier, or `$`, an identifier and one `.`
IsReferenceCandidate(s) ==
    /\ s # <<>>
    /\ s[1] = "$"
    /\ \/ Len(s) = 1
       \/ IsIdentifier(SubSeq(s, 2, Len(s)))
       \/ Len(s) >= 3 /\ s[Len(s)] = "." /\ IsIdentifier(SubSeq(s, 2, Len(s) - 1))

----------------------------------------------------------------------------
(* Streamed references and the store at emission time *)

\* C33: Streamed references see the store at emission time.  The buffer holds
\* the received text that was not emitted yet, as it was received.  A step
\* that takes text out of the buffer and the fragment emits that text resolved
\* against the store as it is in that step, whatever the store held when the
\* first characters of a reference arrived; a step that writes or clears the
\* store emits nothing; and what was emitted stays as it is, every later
\* output extends it.
C33_StoreAtEmissionTime ==
    [][/\ received' = consumed' \o buffer'
       /\ out' = out \o resolveVariablesInText(NewlyConsumed, store')
       /\ store' # store => (out' = out /\ buffer' = buffer /\ consumed' = consumed)
       /\ IsPrefix(out, out')]_vars

\* `$a$a` arrived over a store without `a`; the first reference was emitted
\* as a miss, the tool result 7 was stored as `a` while the second one was
\* held back, and the flush emitted it as 7
C33_Witness ==
    /\ received = <<"$", "a", "$", "a">>
    /\ out = <<"$", "a", "7">>
    /\ closed
    /\ invocation.state = "returned"
    /\ getVariable(store, <<"a">>) = Num(7)

----------------------------------------------------------------------------
(* The agent's textStream against createTextStreamTransform *)

\* C34: The agent's wrapped textStream is the same transform.  Fed the same
\* fragments over the same store, the stream the agent wrapper returns as
\* textStream and createTextStreamTransform have, after every fragment and
\* after the end of the source, enqueued the same fragments in their last
\* step and the same text in all, the final flush of the buffer included;
\* they hold back the same text, and one is closed exactly when the other is.
C34_AgentStreamIsTransform ==
    /\ agent.received = received
    /\ agent.lastEmit = lastEmit
    /\ agent.out = out
    /\ agent.closed = closed
    /\ ~closed => agent.buffer = buffer

\* the source gave `b$a` and ended; the agent's stream emitted `b`, held
\* `$a` back, and emitted the stored value of a when the source ended
C34_Witness ==
    /\ agent.closed
    /\ agent.received = <<"b", "$", "a">>
    /\ hasVariable(store, <<"a">>)
    /\ agent.lastEmit = <<JsonStringify(FieldObject)>>
    /\ agent.out = <<"b">> \o JsonStringify(FieldObject)

----------------------------------------------------------------------------
(* Transform instances side by side *)

\* the text an instance that received r holds back
HeldTail(r) ==
    IF findIncompleteStart(r) >= 0 THEN SliceFrom(r, findIncompleteStart(r)) ELSE <<>>

\* the first instance, as the record the second one is
FirstInstance ==
    [buffer |-> buffer, received |-> received, out |-> out, lastEmit |-> lastEmit,
     closed |-> closed]

\* y is what an instance in state x over the store st comes to when it runs
\* alone and receives the rest of y.received, or its end: it holds back the
\* tail of its own text, and emits the text between what it held and what it
\* holds resolved against st
AloneStep(x, y, st) ==
    LET newText == SubSeq(y.received, Len(x.received) - Len(x.buffer) + 1,
                          Len(y.received) - Len(y.buffer))
        silent == IF y.closed THEN x.buffer = <<>>
                  ELSE y.buffer # <<>> /\ newText = <<>>
    IN  /\ IsPrefix(x.received, y.received)
        /\ y.buffer = IF y.closed THEN <<>> ELSE HeldTail(y.received)
        /\ y.out = IF silent THEN x.out ELSE x.out \o resolveVariablesInText(newText, st)
        /\ y.lastEmit = IF silent THEN <<>> ELSE <<resolveVariablesInText(newText, st)>>

\* C32: Transform instances are independent.  In every interleaving of the
\* fragments delivered to two instances, over the same context or over
\* different ones, a step of one instance leaves the other as it is, and
\* brings the instance to the state it would reach alone on its own
\* fragments: its buffer is the held-back tail of its own text, and it emits
\* its own text resolved against its own store.
C32_InstancesIndependent ==
    [][/\ FirstInstance' # FirstInstance =>
             /\ peer' = peer
             /\ AloneStep(FirstInstance, FirstInstance', store)
       /\ peer' # peer =>
             /\ FirstInstance' = FirstInstance
             /\ peer'.ctx = peer.ctx
             /\ AloneStep(peer, peer', PeerStore)]_vars

\* the first instance holds `$a` back while the second one, over the other
\* context, has received `$a$`, emitted the 7 stored there and holds `$`
C32_Witness ==
    /\ buffer = <<"$", "a">>
    /\ out = <<>>
    /\ ~closed
    /\ hasVariable(store, <<"a">>)
    /\ peer.ctx = "other"
    /\ peer.received = <<"$", "a", "$">>
    /\ peer.buffer = <<"$">>
    /\ peer.out = <<"7">>

----------------------------------------------------------------------------
(* One store for each context *)

\* the Map of the context c before a step: empty when the step is the first
\* use of c
MapBefore(c) == IF contexts[c].created THEN contexts[c].store ELSE <<>>

\* the step is a call on another context
CallOnOther == <<op, arg, ret>>' # <<op, arg, ret>> /\ "ctx" \in DOMAIN arg'

\* the step is a call on the session's context
CallOnSession == <<op, arg, ret>>' # <<op, arg, ret>> /\ "ctx" \notin DOMAIN arg'

\* C36: Stores are isolated per context.  The first operation on a context
\* finds an empty store, and every later one the store the earlier ones
\* left: a call on a context answers from, and changes, the Map of that
\* context alone.  A variable set, overwritten or cleared through one context
\* leaves the Map of every other context as it is, and the result of a read
\* on a context is what the Map of that context gives.
C36_StoresIsolatedPerContext ==
    [][/\ CallOnOther =>
             /\ store' = store
             /\ \A d \in ContextIds \ {arg'.ctx} : contexts'[d] = contexts[d]
             /\ op' = "setVariable" =>
                   /\ contexts'[arg'.ctx].created
                   /\ getVariable(contexts'[arg'.ctx].store, arg'.name) = arg'.value
                   /\ \A n \in Names \ {arg'.name} :
                         getVariable(contexts'[arg'.ctx].store, n)
                            = getVariable(MapBefore(arg'.ctx), n)
             /\ op' = "clearVariables" =>
                   contexts'[arg'.ctx] = [created |-> TRUE, store |-> <<>>]
             /\ op' = "getVariable" =>
                   /\ ret' = getVariable(MapBefore(arg'.ctx), arg'.name)
                   /\ contexts'[arg'.ctx] = [created |-> TRUE, store |-> MapBefore(arg'.ctx)]
             /\ op' = "listVariables" =>
                   /\ ret' = listVariables(MapBefore(arg'.ctx))
                   /\ contexts'[arg'.ctx] = [created |-> TRUE, store |-> MapBefore(arg'.ctx)]
             /\ op' = "resolveString" =>
                   /\ ret' = resolveString(arg'.str, MapBefore(arg'.ctx))
                   /\ contexts'[arg'.ctx].store = MapBefore(arg'.ctx)
       /\ CallOnSession =>
             /\ contexts' = contexts
             /\ op' = "getVariable" => ret' = getVariable(store, arg'.v)
             /\ op' = "listVariables" => ret' = listVariables(store)
             /\ op' = "resolveString" => ret' = resolveString(arg'.v, store)
       /\ \A c \in ContextIds : ~contexts[c].created => contexts[c].store = <<>>]_vars

\* `a` is 5 in the session's context and 7 in another one, a third context
\* was cleared, and `$a` has just been resolved to 7 through the second
C36_Witness ==
    /\ getVariable(store, <<"a">>) = Num(5)
    /\ getVariable(contexts["other"].store, <<"a">>) = Num(7)
    /\ contexts["fresh"] = [created |-> TRUE, store |-> <<>>]
    /\ op = "resolveString"
    /\ arg = [ctx |-> "other", str |-> <<"$", "a">>]
    /\ ret = Num(7)

----------------------------------------------------------------------------
(* The context of a wrapped tool call *)

\* the step is the start of a call whose context is not the session's
BeginsIn == invocation'.state = "executing" /\ invocation.state # "executing"
               /\ "ctx" \in DOMAIN invocation'

\* the step is the start of a call with the session's context
BeginsInSession == invocation'.state = "executing" /\ invocation.state # "executing"
                      /\ "ctx" \notin DOMAIN invocation'

\* the step is the successful end of a call
Returns == invocation'.state = "returned" /\ invocation.state = "executing"

\* C37: Tool results land in the invocation's own context.  A wrapped tool
\* resolves its input against the store of the runtime context supplied with
\* the call, passes that context to the wrapped execute, and writes the
\* result into the store of that context and of no other.  Called with no
\* runtime context it uses a new empty one for all three: every reference of
\* the input is a miss, so the input is passed on as it is, and the result
\* is stored where neither the session's context nor the other one shows it.
C37_ResultsLandInOwnContext ==
    [][/\ BeginsInSession =>
             invocation'.resolvedContext = resolveVariables(invocation'.input, store)
       /\ BeginsIn =>
             /\ invocation'.passedContext = invocation'.ctx
             /\ invocation'.runtimeContext = "other" =>
                   /\ invocation'.ctx = "other"
                   /\ invocation'.resolvedContext
                         = resolveVariables(invocation'.input, MapBefore("other"))
             /\ invocation'.runtimeContext = NoContext =>
                   /\ invocation'.ctx = "fresh"
                   /\ invocation'.resolvedContext = resolveVariables(invocation'.input, <<>>)
                   /\ invocation'.resolvedContext = invocation'.input
                   /\ contexts'["fresh"].store = <<>>
                   /\ contexts'["other"] = contexts["other"]
             /\ store' = store
       /\ (Returns /\ "ctx" \notin DOMAIN invocation) =>
             /\ getVariable(store', invocation'.varName) = invocation'.result
             /\ contexts' = contexts
       /\ (Returns /\ "ctx" \in DOMAIN invocation) =>
             /\ invocation'.ctx = invocation.ctx
             /\ getVariable(contexts'[invocation.ctx].store, invocation'.varName)
                   = invocation'.result
             /\ \A d \in ContextIds \ {invocation.ctx} : contexts'[d] = contexts[d]
             /\ store' = store
             /\ invocation.runtimeContext = NoContext => invocation.ctx = "fresh"]_vars

\* called with no runtime context and the input `$a`, while `a` is stored in
\* the session's context and in the other one, the tool got `$a` as it was
\* and its result is `a` in a context of its own
C37_Witness ==
    /\ invocation.state = "returned"
    /\ "ctx" \in DOMAIN invocation
    /\ invocation.runtimeContext = NoContext
    /\ invocation.input = Obj(<<[k |-> <<"q">>, v |-> Str(<<"$", "a">>)]>>)
    /\ invocation.resolvedContext = invocation.input
    /\ invocation.varName = <<"a">>
    /\ invocation.result = NestedObject
    /\ getVariable(contexts["fresh"].store, <<"a">>) = NestedObject
    /\ getVariable(store, <<"a">>) = Num(5)
    /\ getVariable(contexts["other"].store, <<"a">>) = Bool(TRUE)

====
